---- MODULE Spec2Model ----
(***************************************************************************)
(* Model of the teaching-assistant evaluation tracker.                     *)
(*                                                                         *)
(*  - the discrepancy engine of the Evaluations component                   *)
(*    (compareGoal, getStudentDiscrepancyInfo), as pure functions applied   *)
(*    to inputs drawn in the initial state (SpecCompare, SpecDisc);         *)
(*  - the server's Class objects and class store (Class.ts and the class    *)
(*    routes of the server), as a state machine over a heap of Class        *)
(*    objects and enrollment arrays (SpecClass, Spec), and the way of a     *)
(*    Class through toJSON and fromJSON (SpecJSON);                         *)
(*  - the recording of evaluations on an enrollment (SpecEval);             *)
(*  - the student routes, the class routes and the saves of the student     *)
(*    list to data/students.json (SpecServer);                              *)
(*  - the class update statement by statement, with the requests the event  *)
(*    loop dispatches around it (SpecAtomic);                               *)
(*  - the Evaluations component: the cells of its comparison view           *)
(*    (SpecCell), its scheduler form (SpecDate, SpecScheduler), and its     *)
(*    class list with the requests that reload it (SpecLoad, SpecSelect).   *)
(***************************************************************************)
EXTENDS Integers, Sequences, FiniteSets, TLC

VARIABLES
    teacherEval,             \* compareGoal: first argument
    selfEval,                \* compareGoal: second argument
    hasDiscrepancy,          \* compareGoal: the value returned
    evaluationGoals,         \* getStudentDiscrepancyInfo: the goal list
    studentEvaluations,      \* getStudentDiscrepancyInfo: goal -> teacher grade
    studentSelfEvaluations,  \* getStudentDiscrepancyInfo: goal -> self grade
    total,                   \* getStudentDiscrepancyInfo: the local total when the loop ends
    discrepant,              \* getStudentDiscrepancyInfo: the local discrepant when the loop ends
    info,                    \* getStudentDiscrepancyInfo: the value returned
    pc,                      \* "call" before the function under check has run, "done" after
    classes,                 \* the live Class objects, in the order of the class store
    arrays,                  \* the heap of enrollment arrays: arrays[ref] is an Enrollment[]
    last,                    \* the last call or request: what it was and how it ended
    json,                    \* the value toJSON returned, NoJSON before it is called
    studentSet,              \* the students of the server's StudentSet, in insertion order
    dataFile,                \* the students array of data/students.json
    pendingSaves,            \* the setImmediate callbacks of triggerSave not yet run
    lastSave,                \* how the last saveStudentsToFile ended: "none", "ok", "failed"
    running,                 \* the handlers that have begun and not yet answered
    cell,                    \* one student's pair of cells for one goal in the comparison view
    classesState,            \* Evaluations: the state classes
    selectedClassId,         \* Evaluations: the state selectedClassId
    selectedClass,           \* Evaluations: the state selectedClass, NoClass for null
    isLoading,               \* Evaluations: the state isLoading
    showScheduler,           \* Evaluations: the state showScheduler
    scheduledGoal,           \* Evaluations: the state scheduledGoal
    days,                    \* Evaluations: the state days, Num(n) or EmptyInput
    hours,                   \* Evaluations: the state hours, Num(n) or EmptyInput
    minutes,                 \* Evaluations: the state minutes, Num(n) or EmptyInput
    scheduledDate,           \* Evaluations: the state scheduledDate in ms, NoDate for null
    modal,                   \* Evaluations: the title of the open modal, "" for none
    now,                     \* the browser's clock, Date.now(), in ms
    requests,                \* the client's requests that have not settled yet
    serverData,              \* the class list the server answers GET /api/classes with
    reported                 \* the messages the component has passed to onError

vars == <<teacherEval, selfEval, hasDiscrepancy,
          evaluationGoals, studentEvaluations, studentSelfEvaluations,
          total, discrepant, info, pc, classes, arrays, last, json,
          studentSet, dataFile, pendingSaves, lastSave, running,
          cell, classesState, selectedClassId, selectedClass, isLoading,
          showScheduler, scheduledGoal, days, hours, minutes, scheduledDate,
          modal, now, requests, serverData, reported>>

\* The state of the Evaluations component and of what it talks to.
cellVars == <<cell>>
loadVars == <<classesState, selectedClassId, selectedClass, isLoading>>
schedulerVars == <<showScheduler, scheduledGoal, days, hours, minutes,
                   scheduledDate, modal, now>>
netVars == <<requests, serverData, reported>>
uiVars == <<cellVars, loadVars, schedulerVars, netVars>>

----------------------------------------------------------------------------
(* JavaScript values that compareGoal handles.                              *)

\* null and undefined arguments (the parameters are string | null | undefined)
JsNull == "<null>"
JsUndefined == "<undefined>"

\* A value read from the hierarchy object: a number, a function inherited
\* from Object.prototype, or undefined.
NumVal(n) == [tag |-> "num", num |-> n, src |-> <<>>]
FnVal(source) == [tag |-> "fn", num |-> 0, src |-> source]
UndefVal == [tag |-> "undef", num |-> 0, src |-> <<>>]
NullVal == [tag |-> "null", num |-> 0, src |-> <<>>]

\* UTF-16 code units of the text every native function's toString() starts
\* with, "function ", and of the names of the two inherited functions the
\* model reads: Object (the value of .constructor) and toString.
FunctionPrefix == <<102, 117, 110, 99, 116, 105, 111, 110, 32>>
ObjectName == <<79, 98, 106, 101, 99, 116>>
ToStringName == <<116, 111, 83, 116, 114, 105, 110, 103>>
NativeSuffix == <<40, 41, 32, 123, 32, 91, 110, 97, 116, 105, 118, 101, 32, 99, 111, 100, 101, 93, 32, 125>>
NativeSource(name) == FunctionPrefix \o name \o NativeSuffix

\* hierarchy[key] for the object literal { MA: 3, MPA: 2, MANA: 1 }: its own
\* properties first, then the properties every object literal inherits from
\* Object.prototype.
hierarchy(key) ==
    CASE key = "MA" -> NumVal(3)
      [] key = "MPA" -> NumVal(2)
      [] key = "MANA" -> NumVal(1)
      [] key = "constructor" -> FnVal(NativeSource(ObjectName))
      [] key = "toString" -> FnVal(NativeSource(ToStringName))
      [] OTHER -> UndefVal

\* ToBoolean of a string | null | undefined argument
TruthyArg(x) == x # JsNull /\ x # JsUndefined /\ x # ""

\* ToBoolean of a value read from hierarchy
TruthyVal(v) ==
    CASE v.tag = "num" -> v.num # 0
      [] v.tag = "fn" -> TRUE
      [] OTHER -> FALSE

\* a < b on strings: the first differing code unit decides, a proper prefix
\* is smaller.
RECURSIVE StringLess(_, _)
StringLess(a, b) ==
    IF b = <<>> THEN FALSE
    ELSE IF a = <<>> THEN TRUE
    ELSE IF Head(a) # Head(b) THEN Head(a) < Head(b)
    ELSE StringLess(Tail(a), Tail(b))

\* a < b of JavaScript (the abstract relational comparison): each operand
\* goes through ToPrimitive, which turns a function into its source text;
\* two strings compare as strings; otherwise both go through ToNumber, and a
\* function's source text is NaN, for which every comparison is false.
JsLess(a, b) ==
    CASE a.tag = "num" /\ b.tag = "num" -> a.num < b.num
      [] a.tag = "fn" /\ b.tag = "fn" -> StringLess(a.src, b.src)
      [] OTHER -> FALSE

\* Evaluations.tsx compareGoal
compareGoal(teacherEvalArg, selfEvalArg) ==
    LET t == IF TruthyArg(teacherEvalArg) /\ TruthyVal(hierarchy(teacherEvalArg))
             THEN hierarchy(teacherEvalArg) ELSE NullVal
        s == IF TruthyArg(selfEvalArg) /\ TruthyVal(hierarchy(selfEvalArg))
             THEN hierarchy(selfEvalArg) ELSE NullVal
    IN  IF t.tag = "null" \/ s.tag = "null" THEN FALSE
        ELSE JsLess(t, s)

----------------------------------------------------------------------------
(* getStudentDiscrepancyInfo                                                *)

\* Evaluations.tsx EVALUATION_GOALS
EVALUATION_GOALS ==
    <<"Requirements", "Configuration Management", "Project Management",
      "Design", "Tests", "Refactoring">>

\* record[goal] || "" on a map built by reduce from {}: a goal without an
\* entry reads undefined, which || turns into "".
GradeOf(map, goal) ==
    IF goal \in DOMAIN map /\ TruthyArg(map[goal]) THEN map[goal] ELSE ""

\* Mutant of MathRound: Math.floor in place of Math.round.
MathRound_Floor(num, den) == num \div den

\* Math.round of the non-negative quotient num / den: the nearest integer,
\* a tie going up. The code rounds the double (discrepant / total) * 100;
\* for the totals of the model no quotient is within a rounding error of a
\* half, so the exact quotient rounds to the same integer.
MathRound(num, den) == (2 * num + den) \div (2 * den)

\* Mutant of IsConsidered: && in place of ||.
IsConsidered_BothSides(teacherE, selfE) == teacherE # "" /\ selfE # ""

\* if (teacherEval || selfEval): the goal counts
IsConsidered(teacherE, selfE) == teacherE # "" \/ selfE # ""

\* The for loop of getStudentDiscrepancyInfo over goals[i..], carrying the
\* two counters.
RECURSIVE DiscrepancyLoop(_, _, _, _, _, _)
DiscrepancyLoop(goals, i, evals, selfEvals, tot, disc) ==
    IF i > Len(goals) THEN [total |-> tot, discrepant |-> disc]
    ELSE LET teacherE == GradeOf(evals, goals[i])
             selfE == GradeOf(selfEvals, goals[i])
         IN  IF IsConsidered(teacherE, selfE)
             THEN DiscrepancyLoop(goals, i + 1, evals, selfEvals, tot + 1,
                                  IF compareGoal(teacherE, selfE)
                                  THEN disc + 1 ELSE disc)
             ELSE DiscrepancyLoop(goals, i + 1, evals, selfEvals, tot, disc)

\* Mutant of HighlightOf: >= in place of >.
HighlightOf_AtLeast(percentage) == percentage >= 25

\* highlight: percentage > 25
HighlightOf(percentage) == percentage > 25

\* Evaluations.tsx getStudentDiscrepancyInfo
getStudentDiscrepancyInfo(goals, evals, selfEvals) ==
    LET c == DiscrepancyLoop(goals, 1, evals, selfEvals, 0, 0)
        percentage == IF c.total = 0 THEN 0
                      ELSE MathRound(c.discrepant * 100, c.total)
    IN  [percentage |-> percentage, highlight |-> HighlightOf(percentage)]

----------------------------------------------------------------------------
(* Class.ts: a Class object and its enrollments.                            *)

\* Student objects. AnaAgain is a second Student object with Ana's CPF.
Ana == [name |-> "Ana", cpf |-> "11111111111"]
Bia == [name |-> "Bia", cpf |-> "22222222222"]
Caio == [name |-> "Caio", cpf |-> "33333333333"]
AnaAgain == [name |-> "Ana Maria", cpf |-> "11111111111"]

\* Student.getCPF()
getCPF(student) == student.cpf

\* new Enrollment(student): no teacher evaluation and no self-evaluation yet
NewEnrollment(student) ==
    [student |-> student, evaluations |-> <<>>, selfEvaluations |-> <<>>]

\* Enrollment.fromJSON(enrollmentData, student): the student found and the
\* evaluations of the data
EnrollmentFromJSON(enrollmentData, student) ==
    [student |-> student,
     evaluations |-> enrollmentData.evaluations,
     selfEvaluations |-> enrollmentData.selfEvaluations]

\* new Class(topic, semester, year, enrollments): the object keeps the
\* reference of the array it is given.
Class(topic, semester, year, enrollmentsRef) ==
    [topic |-> topic, semester |-> semester, year |-> year,
     enrollments |-> enrollmentsRef]

\* Mutant of DefaultEnrollments: one array made once and shared by every
\* call that leaves the parameter out.
DefaultEnrollments_Shared(heap) == 1

\* The default value of the constructor's enrollments parameter, [] : the
\* expression is evaluated at each call, so it is a new array, whose
\* reference is the next one of the heap.
DefaultEnrollments(heap) == Len(heap) + 1

\* The heap after the array `ref` has been made with the elements `elems`
\* (a reference the heap already holds keeps its array).
Allocate(heap, ref, elems) ==
    IF ref \in DOMAIN heap THEN heap ELSE Append(heap, elems)

\* getClassId(): `${topic}-${year}-${semester}`, as the parts of the
\* template; equal parts give equal ids.
getClassId(c) == <<c.topic, "-", c.year, "-", c.semester>>

\* Array.prototype.findIndex with the predicate
\* enrollment.getStudent().getCPF() === studentCPF, positions counted from 1
\* and 0 standing for JavaScript's -1.
RECURSIVE FindIndexFrom(_, _, _)
FindIndexFrom(enrollments, studentCPF, i) ==
    IF i > Len(enrollments) THEN 0
    ELSE IF getCPF(enrollments[i].student) = studentCPF THEN i
    ELSE FindIndexFrom(enrollments, studentCPF, i + 1)

\* this.enrollments.findIndex(...) of removeEnrollment
findEnrollmentIndex(enrollments, studentCPF) ==
    FindIndexFrom(enrollments, studentCPF, 1)

\* Mutant of findEnrollmentByStudentCPF: getCPF() is left out, so a Student
\* object is compared with the CPF string and nothing is ever found.
findEnrollmentByStudentCPF_NoGetCPF(enrollments, studentCPF) == 0

\* findEnrollmentByStudentCPF: the position of the enrollment found, 0 for
\* undefined.
findEnrollmentByStudentCPF(enrollments, studentCPF) ==
    FindIndexFrom(enrollments, studentCPF, 1)

\* Mutant of addEnrollment: unshift in place of push.
addEnrollment_Unshift(enrollments, student) ==
    IF findEnrollmentByStudentCPF(enrollments, getCPF(student)) # 0
    THEN [threw |-> TRUE, enrollments |-> enrollments]
    ELSE [threw |-> FALSE,
          enrollments |-> <<NewEnrollment(student)>> \o enrollments]

\* Class.addEnrollment on the array `enrollments`: whether it threw, and the
\* array afterwards.
addEnrollment(enrollments, student) ==
    IF findEnrollmentByStudentCPF(enrollments, getCPF(student)) # 0
    THEN [threw |-> TRUE, enrollments |-> enrollments]
    ELSE [threw |-> FALSE,
          enrollments |-> Append(enrollments, NewEnrollment(student))]

\* enrollments.splice(index, 1)
Splice1(enrollments, index) ==
    SubSeq(enrollments, 1, index - 1)
        \o SubSeq(enrollments, index + 1, Len(enrollments))

\* Class.removeEnrollment on the array `enrollments`: the value returned and
\* the array afterwards.
removeEnrollment(enrollments, studentCPF) ==
    LET index == findEnrollmentIndex(enrollments, studentCPF)
    IN  IF index = 0
        THEN [returned |-> FALSE, enrollments |-> enrollments]
        ELSE [returned |-> TRUE, enrollments |-> Splice1(enrollments, index)]

\* allStudents.find(s => s.getCPF() === cpf): the position of the first
\* student with the CPF, 0 for undefined.
RECURSIVE FindStudentFrom(_, _, _)
FindStudentFrom(allStudents, cpf, i) ==
    IF i > Len(allStudents) THEN 0
    ELSE IF getCPF(allStudents[i]) = cpf THEN i
    ELSE FindStudentFrom(allStudents, cpf, i + 1)

\* The map of fromJSON over data.enrollments: whether a student was not
\* found (the callback throws), and the Enrollment objects made.
RECURSIVE MapEnrollments(_, _)
MapEnrollments(enrollmentsData, allStudents) ==
    IF enrollmentsData = <<>> THEN [threw |-> FALSE, enrollments |-> <<>>]
    ELSE LET k == FindStudentFrom(allStudents, Head(enrollmentsData).cpf, 1)
             rest == MapEnrollments(Tail(enrollmentsData), allStudents)
         IN  IF k = 0 \/ rest.threw
             THEN [threw |-> TRUE, enrollments |-> <<>>]
             ELSE [threw |-> FALSE,
                   enrollments |->
                       <<EnrollmentFromJSON(Head(enrollmentsData), allStudents[k])>>
                           \o rest.enrollments]

\* What no call has happened yet looks like.
NoCall == [op |-> "none", idx |-> 0, name |-> "", cpf |-> "", result |-> ""]

\* The value of json before toJSON is called.
NoJSON == [id |-> <<>>]

\* null, for the states selectedClass and scheduledDate.
NoClass == [id |-> "", enrollments |-> 0, grade |-> ""]
NoDate == -1

\* What a state of type number | "" holds: the empty string or a number.
EmptyInput == <<>>
Num(n) == <<n>>

\* A cell of the comparison view that has not been rendered.
NoCell ==
    [cpf |-> "", discrepancyClass |-> "", infoButton |-> FALSE,
     evaluationBackground |-> "", selfBackground |-> ""]

\* The Evaluations component is not mounted.
UiIdle ==
    /\ cell = NoCell
    /\ classesState = <<>>
    /\ selectedClassId = ""
    /\ selectedClass = NoClass
    /\ isLoading = FALSE
    /\ showScheduler = FALSE
    /\ scheduledGoal = ""
    /\ days = Num(0)
    /\ hours = Num(0)
    /\ minutes = Num(0)
    /\ scheduledDate = NoDate
    /\ modal = ""
    /\ now = 0
    /\ requests = <<>>
    /\ serverData = <<>>
    /\ reported = {}

\* The state the rest of the program is in while the functions and objects
\* above are exercised: nothing serialised.
RestIdle ==
    /\ json = NoJSON
    /\ studentSet = <<>>
    /\ dataFile = <<>>
    /\ pendingSaves = 0
    /\ lastSave = "none"
    /\ running = <<>>
    /\ UiIdle

persistVars == <<studentSet, dataFile, pendingSaves, lastSave>>

restVars == <<json, persistVars, running, uiVars>>

ServerIdle ==
    /\ classes = <<>>
    /\ arrays = <<>>
    /\ last = NoCall
    /\ RestIdle

serverVars == <<classes, arrays, last, restVars>>

----------------------------------------------------------------------------
(* The pure functions under check, applied to every input of a bounded set. *)

\* At most this many goals, the first ones of EVALUATION_GOALS, carry a grade.
MaxGraded == 4

\* The arguments compareGoal is applied to: the three grades, the empty
\* string, null, undefined, and strings that are no grade.
GradeArgs ==
    {"MANA", "MPA", "MA", "", JsNull, JsUndefined, "X", "constructor", "toString"}

\* The grades the teacher's map and the student's map may hold; "X" is a
\* string that is no grade.
TeacherGrades == {"MPA", "MA"}
SelfGrades == {"MANA", "MA", "X"}

GradedGoals == {EVALUATION_GOALS[i] : i \in 1..MaxGraded}

TeacherMaps == UNION {[D -> TeacherGrades] : D \in SUBSET GradedGoals}
SelfMaps == UNION {[D -> SelfGrades] : D \in SUBSET GradedGoals}

\* The goal lists: none of the goals, the first half of them, all of them.
GoalLists ==
    {SubSeq(EVALUATION_GOALS, 1, n) :
        n \in {0, Len(EVALUATION_GOALS) \div 2, Len(EVALUATION_GOALS)}}

NoInfo == [percentage |-> 0, highlight |-> FALSE]

CompareIdle ==
    /\ teacherEval = ""
    /\ selfEval = ""
    /\ hasDiscrepancy = FALSE

DiscIdle ==
    /\ evaluationGoals = <<>>
    /\ studentEvaluations = <<>>
    /\ studentSelfEvaluations = <<>>
    /\ total = 0
    /\ discrepant = 0
    /\ info = NoInfo

compareVars == <<teacherEval, selfEval, hasDiscrepancy>>
discVars == <<evaluationGoals, studentEvaluations, studentSelfEvaluations,
              total, discrepant, info>>

InitCompare ==
    /\ teacherEval \in GradeArgs
    /\ selfEval \in GradeArgs
    /\ hasDiscrepancy = FALSE
    /\ pc = "call"
    /\ DiscIdle
    /\ ServerIdle

CallCompareGoal ==
    /\ pc = "call"
    /\ hasDiscrepancy' = compareGoal(teacherEval, selfEval)
    /\ pc' = "done"
    /\ UNCHANGED <<teacherEval, selfEval, discVars, serverVars>>

NextCompare == CallCompareGoal

SpecCompare == InitCompare /\ [][NextCompare]_vars

InitDisc ==
    /\ evaluationGoals \in GoalLists
    /\ studentEvaluations \in TeacherMaps
    /\ studentSelfEvaluations \in SelfMaps
    /\ total = 0
    /\ discrepant = 0
    /\ info = NoInfo
    /\ pc = "call"
    /\ CompareIdle
    /\ ServerIdle

CallGetStudentDiscrepancyInfo ==
    /\ pc = "call"
    /\ LET c == DiscrepancyLoop(evaluationGoals, 1, studentEvaluations,
                                studentSelfEvaluations, 0, 0)
       IN  total' = c.total /\ discrepant' = c.discrepant
    /\ info' = getStudentDiscrepancyInfo(evaluationGoals, studentEvaluations,
                                         studentSelfEvaluations)
    /\ pc' = "done"
    /\ UNCHANGED <<evaluationGoals, studentEvaluations, studentSelfEvaluations,
                   compareVars, serverVars>>

NextDisc == CallGetStudentDiscrepancyInfo

SpecDisc == InitDisc /\ [][NextDisc]_vars

----------------------------------------------------------------------------
(* Claims about the discrepancy engine.                                     *)

ValidGrades == {"MANA", "MPA", "MA"}

\* The ranking MANA < MPA < MA of the grade scale.
Rank(g) == CASE g = "MANA" -> 1 [] g = "MPA" -> 2 [] g = "MA" -> 3

\* The student's grade overstates the teacher's.
Overstates(t, s) ==
    t \in ValidGrades /\ s \in ValidGrades /\ Rank(t) < Rank(s)

\* C1: compareGoal returns true if and only if both grades are among MANA,
\* MPA, MA and the teacher's ranks strictly below the student's; it returns
\* false for every pair with a missing or invalid grade and for equal grades.
C1_CompareGoalIffOverstates ==
    pc = "done" => (hasDiscrepancy <=> Overstates(teacherEval, selfEval))

\* The goals of the list (by position) with a non-empty grade in the map.
HasGrade(map, goal) == goal \in DOMAIN map /\ map[goal] # ""

ConsideredPositions ==
    {i \in 1..Len(evaluationGoals) :
        \/ HasGrade(studentEvaluations, evaluationGoals[i])
        \/ HasGrade(studentSelfEvaluations, evaluationGoals[i])}

BothGradedPositions ==
    {i \in 1..Len(evaluationGoals) :
        /\ HasGrade(studentEvaluations, evaluationGoals[i])
        /\ HasGrade(studentSelfEvaluations, evaluationGoals[i])}

\* The grade of the map for the goal, "" when it has none.
GradeAt(map, goal) == IF HasGrade(map, goal) THEN map[goal] ELSE ""

\* The considered goals for which compareGoal is true.
DiscrepantPositions ==
    {i \in ConsideredPositions :
        compareGoal(GradeAt(studentEvaluations, evaluationGoals[i]),
                    GradeAt(studentSelfEvaluations, evaluationGoals[i]))}

\* p is the integer nearest to 100 * d / c, a tie going up.
IsRoundedPercent(p, d, c) ==
    2 * p * c - c <= 200 * d /\ 200 * d < 2 * p * c + c

\* C2: the percentage returned is round(100 * discrepant / considered), and
\* it is 0 with highlight false when no goal is considered (the empty goal
\* list with empty maps included).
C2_PercentageIsRoundedRatio ==
    pc = "done" =>
        LET c == Cardinality(ConsideredPositions)
            d == Cardinality(DiscrepantPositions)
        IN  IF c = 0 THEN info = [percentage |-> 0, highlight |-> FALSE]
            ELSE /\ info.percentage \in 0..100
                 /\ IsRoundedPercent(info.percentage, d, c)

\* C2 witness: two goals of three considered are discrepant, 66.67 rounds up.
C2_Witness ==
    /\ pc = "done"
    /\ Cardinality(ConsideredPositions) = 3
    /\ Cardinality(DiscrepantPositions) = 2
    /\ info.percentage = 67

\* The teacher and self grades of the example of C3.
ExampleTeacher ==
    ("Requirements" :> "MA") @@ ("Configuration Management" :> "MPA")
ExampleSelf ==
    ("Requirements" :> "MA") @@ ("Configuration Management" :> "MA")
        @@ ("Project Management" :> "MANA")

\* C3: a goal is counted in total exactly when the teacher grade or the self
\* grade for it is non-empty, and in discrepant exactly when compareGoal is
\* true for it; a goal graded on one side only is never discrepant; the
\* example over the six goals gives total 3, discrepant 1, 33 %, highlight.
C3_CountersMatchDefinition ==
    pc = "done" =>
        /\ total = Cardinality(ConsideredPositions)
        /\ discrepant = Cardinality(DiscrepantPositions)
        /\ discrepant <= Cardinality(BothGradedPositions)
        /\ ( /\ evaluationGoals = EVALUATION_GOALS
             /\ studentEvaluations = ExampleTeacher
             /\ studentSelfEvaluations = ExampleSelf
             => /\ total = 3
                /\ discrepant = 1
                /\ info = [percentage |-> 33, highlight |-> TRUE] )

\* C3 witness: the example has been computed.
C3_Witness ==
    /\ pc = "done"
    /\ evaluationGoals = EVALUATION_GOALS
    /\ studentEvaluations = ExampleTeacher
    /\ studentSelfEvaluations = ExampleSelf
    /\ total = 3

\* C4: the highlight flag is true if and only if the rounded percentage of
\* discrepant among considered goals is strictly greater than 25: 1 of 4
\* (25 %) is not highlighted, 1 of 3 (33 %) is.
C4_HighlightIffAbove25 ==
    pc = "done" =>
        LET c == Cardinality(ConsideredPositions)
            d == Cardinality(DiscrepantPositions)
        IN  /\ info.highlight <=>
                   (c > 0 /\ \E p \in 26..100 : IsRoundedPercent(p, d, c))
            /\ (c = 4 /\ d = 1 => ~info.highlight)
            /\ (c = 3 /\ d = 1 => info.highlight)

\* C4 witness: exactly 1 discrepant goal of 4 considered, not highlighted.
C4_Witness ==
    /\ pc = "done"
    /\ Cardinality(ConsideredPositions) = 4
    /\ Cardinality(DiscrepantPositions) = 1
    /\ info.percentage = 25
    /\ ~info.highlight

----------------------------------------------------------------------------
(* One Class object: made by the constructor or by fromJSON, then changed   *)
(* by addEnrollment and removeEnrollment.                                   *)

\* An enrollment array holds at most this many enrollments.
MaxEnrollments == 3

Topics == {"ESS", "LP"}
Semesters == {1, 2}
Years == {2024}

\* The students addEnrollment is called with.
ClassStudents == {Ana, Bia, Caio, AnaAgain}

\* The allStudents argument of fromJSON.
AllStudents == <<Ana, Bia, Caio>>

\* The CPFs removeEnrollment is called with: those of the students, and
\* Ana's with its punctuation.
CPFArgs == {getCPF(st) : st \in ClassStudents} \cup {"111.111.111-11"}

\* The elements of data.enrollments (cpf stands for student.cpf): Ana with
\* one teacher grade, Bia and Caio without grades, and a CPF of no student.
EnrollmentData ==
    {[cpf |-> getCPF(Ana),
      evaluations |-> <<[goal |-> "Requirements", grade |-> "MA"]>>,
      selfEvaluations |-> <<>>],
     [cpf |-> getCPF(Bia), evaluations |-> <<>>, selfEvaluations |-> <<>>],
     [cpf |-> getCPF(Caio), evaluations |-> <<>>, selfEvaluations |-> <<>>],
     [cpf |-> "99999999999", evaluations |-> <<>>, selfEvaluations |-> <<>>]}

BoundedSeqs(S, n) == UNION {[1..k -> S] : k \in 0..n}

\* The data argument of fromJSON; hasEnrollments is false when the
\* enrollments field is missing.
ClassData ==
    [topic : Topics, semester : Semesters, year : Years,
     hasEnrollments : {TRUE},
     enrollments : BoundedSeqs(EnrollmentData, MaxEnrollments)]
    \cup
    [topic : Topics, semester : Semesters, year : Years,
     hasEnrollments : {FALSE}, enrollments : {<<>>}]

PureIdle == CompareIdle /\ DiscIdle /\ pc = "done" /\ RestIdle

clientVars == <<compareVars, discVars, pc>>

pureVars == <<clientVars, restVars>>

\* The enrollment array of the Class object classes[i].
EnrollmentsOf(i) == arrays[classes[i].enrollments]

\* new Class(topic, semester, year)
ConstructClass(topic, semester, year) ==
    /\ classes = <<>>
    /\ LET ref == DefaultEnrollments(arrays)
       IN  /\ classes' = <<Class(topic, semester, year, ref)>>
           /\ arrays' = Allocate(arrays, ref, <<>>)
    /\ last' = [op |-> "new", idx |-> 1, name |-> "", cpf |-> "", result |-> "ok"]
    /\ UNCHANGED pureVars

\* Class.fromJSON(data, allStudents)
CallFromJSON(data) ==
    /\ classes = <<>>
    /\ LET m == IF data.hasEnrollments
                THEN MapEnrollments(data.enrollments, AllStudents)
                ELSE [threw |-> FALSE, enrollments |-> <<>>]
           ref == Len(arrays) + 1
       IN  IF m.threw
           THEN /\ last' = [op |-> "fromJSON", idx |-> 0, name |-> "", cpf |-> "",
                            result |-> "throws"]
                /\ UNCHANGED <<classes, arrays>>
           ELSE /\ classes' = <<Class(data.topic, data.semester, data.year, ref)>>
                /\ arrays' = Append(arrays, m.enrollments)
                /\ last' = [op |-> "fromJSON", idx |-> 1, name |-> "", cpf |-> "",
                            result |-> "ok"]
    /\ UNCHANGED pureVars

\* classes[i].addEnrollment(student)
CallAddEnrollment(i, student) ==
    /\ i \in DOMAIN classes
    /\ LET ref == classes[i].enrollments
           r == addEnrollment(arrays[ref], student)
       IN  /\ Len(r.enrollments) <= MaxEnrollments
           /\ arrays' = [arrays EXCEPT ![ref] = r.enrollments]
           /\ last' = [op |-> "addEnrollment", idx |-> i, name |-> student.name,
                       cpf |-> getCPF(student),
                       result |-> IF r.threw THEN "throws" ELSE "ok"]
    /\ UNCHANGED <<classes, pureVars>>

\* classes[i].removeEnrollment(studentCPF)
CallRemoveEnrollment(i, studentCPF) ==
    /\ i \in DOMAIN classes
    /\ LET ref == classes[i].enrollments
           r == removeEnrollment(arrays[ref], studentCPF)
       IN  /\ arrays' = [arrays EXCEPT ![ref] = r.enrollments]
           /\ last' = [op |-> "removeEnrollment", idx |-> i, name |-> "",
                       cpf |-> studentCPF,
                       result |-> IF r.returned THEN "true" ELSE "false"]
    /\ UNCHANGED <<classes, pureVars>>

InitClass == ServerIdle /\ PureIdle

NextClass ==
    \/ \E topic \in Topics, semester \in Semesters, year \in Years :
          ConstructClass(topic, semester, year)
    \/ \E data \in ClassData : CallFromJSON(data)
    \/ \E i \in DOMAIN classes, student \in ClassStudents :
          CallAddEnrollment(i, student)
    \/ \E i \in DOMAIN classes, studentCPF \in CPFArgs :
          CallRemoveEnrollment(i, studentCPF)

SpecClass == InitClass /\ [][NextClass]_vars

----------------------------------------------------------------------------
(* Claims about one Class object.                                           *)

\* Some enrollment of the array belongs to the CPF.
CPFEnrolled(enrollments, cpf) ==
    \E k \in DOMAIN enrollments : enrollments[k].student.cpf = cpf

\* The array without its element at position k; the array itself for k = 0.
WithoutPosition(enrollments, k) ==
    IF k = 0 THEN enrollments
    ELSE [j \in 1..(Len(enrollments) - 1) |->
             IF j < k THEN enrollments[j] ELSE enrollments[j + 1]]

\* C5: addEnrollment for a student whose CPF already has an enrollment in
\* the class throws and leaves the enrollment sequence as it was.
C5_DuplicateAddThrowsUnchanged ==
    [][ (/\ last'.op = "addEnrollment"
         /\ last'.idx \in DOMAIN classes
         /\ CPFEnrolled(arrays[classes[last'.idx].enrollments], last'.cpf))
        => (/\ last'.result = "throws"
            /\ arrays' = arrays
            /\ classes' = classes) ]_vars

\* C5 witness: AnaAgain, a Student object with Ana's CPF, was refused in a
\* class where Ana is enrolled after Bia.
C5_Witness ==
    /\ last.op = "addEnrollment"
    /\ last.result = "throws"
    /\ last.name = AnaAgain.name
    /\ Len(EnrollmentsOf(last.idx)) = 2
    /\ EnrollmentsOf(last.idx)[1].student = Bia
    /\ EnrollmentsOf(last.idx)[2].student = Ana

\* C6: no two enrollments of a Class object, made by the constructor or by
\* fromJSON and changed by addEnrollment and removeEnrollment, belong to
\* the same CPF.
C6_OneEnrollmentPerCPF ==
    \A i \in DOMAIN classes :
        \A j, k \in DOMAIN EnrollmentsOf(i) :
            j # k => EnrollmentsOf(i)[j].student.cpf # EnrollmentsOf(i)[k].student.cpf

\* C8: a successful addEnrollment appends the new enrollment, with no
\* teacher and no self evaluation, as the last element and leaves the
\* earlier ones as they were, in their order; removeEnrollment keeps the
\* order of the enrollments that remain.
C8_AppendLastKeepOrder ==
    [][ \A i \in DOMAIN classes :
          LET before == arrays[classes[i].enrollments]
              after == arrays'[classes[i].enrollments]
          IN  /\ (last'.op = "addEnrollment" /\ last'.result = "ok" /\ last'.idx = i)
                  => /\ Len(after) = Len(before) + 1
                     /\ SubSeq(after, 1, Len(before)) = before
                     /\ after[Len(after)].student.cpf = last'.cpf
                     /\ after[Len(after)].student.name = last'.name
                     /\ after[Len(after)].evaluations = <<>>
                     /\ after[Len(after)].selfEvaluations = <<>>
              /\ (last'.op = "removeEnrollment" /\ last'.idx = i)
                  => \E k \in 0..Len(before) : after = WithoutPosition(before, k)
      ]_vars

\* C8 witness: Caio was appended after Ana, who has a teacher grade, and Bia.
C8_Witness ==
    /\ last.op = "addEnrollment"
    /\ last.result = "ok"
    /\ last.name = Caio.name
    /\ Len(EnrollmentsOf(last.idx)) = 3
    /\ EnrollmentsOf(last.idx)[1].student = Ana
    /\ EnrollmentsOf(last.idx)[1].evaluations # <<>>
    /\ EnrollmentsOf(last.idx)[2].student = Bia
    /\ EnrollmentsOf(last.idx)[3] = NewEnrollment(Caio)

\* C9: removeEnrollment(cpf) returns true and removes the enrollment of the
\* CPF when there is one; it returns false and changes nothing when there
\* is none; so a second call with the same CPF returns false and changes
\* nothing.
C9_RemoveThenAbsent ==
    [][ (last'.op = "removeEnrollment" /\ last'.idx \in DOMAIN classes)
        => LET before == arrays[classes[last'.idx].enrollments]
               after == arrays'[classes[last'.idx].enrollments]
           IN  /\ classes' = classes
               /\ IF CPFEnrolled(before, last'.cpf)
                  THEN /\ last'.result = "true"
                       /\ \E k \in DOMAIN before :
                              /\ before[k].student.cpf = last'.cpf
                              /\ after = WithoutPosition(before, k)
                  ELSE /\ last'.result = "false"
                       /\ after = before
               /\ (/\ last.op = "removeEnrollment"
                   /\ last.result = "true"
                   /\ last.idx = last'.idx
                   /\ last.cpf = last'.cpf)
                  => (last'.result = "false" /\ after = before)
      ]_vars

----------------------------------------------------------------------------
(* The server: the class store and the class routes.                        *)

\* The class store holds at most this many classes.
MaxClasses == 2

\* Classes.findClassById(id): the position of the first class of the store
\* with the id, 0 for undefined.
RECURSIVE FindClassFrom(_, _, _)
FindClassFrom(store, id, i) ==
    IF i > Len(store) THEN 0
    ELSE IF getClassId(store[i]) = id THEN i
    ELSE FindClassFrom(store, id, i + 1)

findClassById(store, id) == FindClassFrom(store, id, 1)

\* Classes.addClass(classObj): a class with the id of a stored class is
\* refused, any other is appended.
addClass(store, classObj) ==
    IF findClassById(store, getClassId(classObj)) # 0
    THEN [threw |-> TRUE, store |-> store]
    ELSE [threw |-> FALSE, store |-> Append(store, classObj)]

\* Classes.removeClass(id): the class with the id is taken out of the store.
removeClass(store, id) ==
    LET index == findClassById(store, id)
    IN  IF index = 0 THEN [returned |-> FALSE, store |-> store]
        ELSE [returned |-> TRUE,
              store |-> SubSeq(store, 1, index - 1)
                            \o SubSeq(store, index + 1, Len(store))]

\* The arrays some class of the store refers to.
LiveRefs(store) == {store[i].enrollments : i \in DOMAIN store}

\* The position of the reference among the live ones.
RefRank(ref, live) == Cardinality({q \in live : q <= ref})

\* The heap without the arrays no class refers to any more, and the store
\* with the references that remain renumbered.
CollectedHeap(store, heap) ==
    [n \in 1..Cardinality(LiveRefs(store)) |->
        heap[CHOOSE r \in LiveRefs(store) : RefRank(r, LiveRefs(store)) = n]]

CollectedStore(store) ==
    [i \in DOMAIN store |->
        [store[i] EXCEPT !.enrollments = RefRank(@, LiveRefs(store))]]

\* The request bodies: every body with its three fields, and one body for
\* each field left out ("" and 0 are what !topic, !semester and !year
\* refuse).
CompleteBodies == [topic : Topics, semester : Semesters, year : Years]
IncompleteBodies ==
    LET b == CHOOSE x \in CompleteBodies : TRUE
    IN  {[b EXCEPT !.topic = ""], [b EXCEPT !.semester = 0], [b EXCEPT !.year = 0]}
Bodies == CompleteBodies \cup IncompleteBodies

\* !topic || !semester || !year
MissingField(body) == body.topic = "" \/ body.semester = 0 \/ body.year = 0

\* The :id of a request: the id of some class, stored or not.
ClassIdParams ==
    {getClassId(Class(t, sem, y, 0)) : t \in Topics, sem \in Semesters, y \in Years}

\* The students the server's classes enroll.
StoreStudents == {Ana, Bia}

Response(op, idx, status) ==
    [op |-> op, idx |-> idx, name |-> "", cpf |-> "", result |-> status]

\* POST /api/classes
PostClass(body) ==
    /\ IF MissingField(body)
       THEN /\ last' = Response("POST /api/classes", 0, "400")
            /\ UNCHANGED <<classes, arrays>>
       ELSE LET ref == DefaultEnrollments(arrays)
                classObj == Class(body.topic, body.semester, body.year, ref)
                r == addClass(classes, classObj)
            IN  IF r.threw
                THEN /\ last' = Response("POST /api/classes", 0, "400")
                     /\ UNCHANGED <<classes, arrays>>
                ELSE /\ Len(r.store) <= MaxClasses
                     /\ classes' = r.store
                     /\ arrays' = Allocate(arrays, ref, <<>>)
                     /\ last' = Response("POST /api/classes", Len(r.store), "201")
    /\ UNCHANGED pureVars

\* PUT /api/classes/:id
PutClass(id, body) ==
    /\ IF MissingField(body)
       THEN /\ last' = Response("PUT /api/classes/:id", 0, "400")
            /\ UNCHANGED classes
       ELSE LET existingClass == findClassById(classes, id)
            IN  IF existingClass = 0
                THEN /\ last' = Response("PUT /api/classes/:id", 0, "404")
                     /\ UNCHANGED classes
                ELSE /\ classes' =
                            [classes EXCEPT ![existingClass] =
                                [@ EXCEPT !.topic = body.topic,
                                          !.semester = body.semester,
                                          !.year = body.year]]
                     /\ last' = Response("PUT /api/classes/:id", existingClass, "200")
    /\ UNCHANGED <<arrays, pureVars>>

\* DELETE /api/classes/:id
DeleteClass(id) ==
    /\ LET r == removeClass(classes, id)
       IN  IF ~r.returned
           THEN /\ last' = Response("DELETE /api/classes/:id", 0, "404")
                /\ UNCHANGED <<classes, arrays>>
           ELSE /\ classes' = CollectedStore(r.store)
                /\ arrays' = CollectedHeap(r.store, arrays)
                /\ last' = Response("DELETE /api/classes/:id", 0, "204")
    /\ UNCHANGED pureVars

Init == ServerIdle /\ PureIdle

Next ==
    \/ \E body \in Bodies : PostClass(body)
    \/ \E id \in ClassIdParams, body \in Bodies : PutClass(id, body)
    \/ \E id \in ClassIdParams : DeleteClass(id)
    \/ \E i \in DOMAIN classes, student \in StoreStudents :
          CallAddEnrollment(i, student)
    \/ \E i \in DOMAIN classes, student \in StoreStudents :
          CallRemoveEnrollment(i, getCPF(student))

Spec == Init /\ [][Next]_vars

----------------------------------------------------------------------------
(* Claims about the class store.                                            *)

\* C7: the stored classes have distinct (topic, year, semester), whatever
\* classes were created and updated.
C7_DistinctClassIdentities ==
    \A i, j \in DOMAIN classes :
        i # j => <<classes[i].topic, classes[i].year, classes[i].semester>>
                 # <<classes[j].topic, classes[j].year, classes[j].semester>>

\* C10: enrolling a student in a class succeeds whatever the student's
\* enrollments in the other classes, and enrolling or unenrolling in one
\* class leaves the enrollment sequence of every other class unchanged.
C10_OtherClassesUntouched ==
    [][ (last'.op \in {"addEnrollment", "removeEnrollment"}
         /\ last'.idx \in DOMAIN classes)
        => /\ classes' = classes
           /\ (last'.op = "addEnrollment"
                /\ ~CPFEnrolled(arrays[classes[last'.idx].enrollments], last'.cpf))
               => last'.result = "ok"
           /\ \A j \in DOMAIN classes :
                  j # last'.idx
                  => arrays'[classes[j].enrollments] = arrays[classes[j].enrollments]
      ]_vars

\* C10 witness: Ana was enrolled in one class while enrolled in another,
\* whose enrollment sequence is a different one.
C10_Witness ==
    /\ last.op = "addEnrollment"
    /\ last.result = "ok"
    /\ last.cpf = getCPF(Ana)
    /\ \E j \in DOMAIN classes :
          /\ j # last.idx
          /\ CPFEnrolled(EnrollmentsOf(j), getCPF(Ana))
          /\ EnrollmentsOf(j) # EnrollmentsOf(last.idx)

----------------------------------------------------------------------------
(* CPF normalisation (cleanCPF of the server).                              *)

\* The sequence of n copies of the character c.
Repeat(c, n) == [i \in 1..n |-> c]

\* A CPF written with its punctuation: ddd.ddd.ddd-dd
Formatted(d) ==
    Repeat(d, 3) \o <<".">> \o Repeat(d, 3) \o <<".">> \o Repeat(d, 3)
        \o <<"-">> \o Repeat(d, 2)

\* The CPF strings of the model.
CPFTexts ==
    {"11111111111", "22222222222", "33333333333", "99999999999",
     "111.111.111-11", "222.222.222-22", "999.999.999-99"}

\* The characters of a CPF string.
Chars(text) ==
    CASE text = "11111111111" -> Repeat("1", 11)
      [] text = "22222222222" -> Repeat("2", 11)
      [] text = "33333333333" -> Repeat("3", 11)
      [] text = "99999999999" -> Repeat("9", 11)
      [] text = "111.111.111-11" -> Formatted("1")
      [] text = "222.222.222-22" -> Formatted("2")
      [] text = "999.999.999-99" -> Formatted("9")

\* The CPF string made of the characters.
Text(chars) == CHOOSE text \in CPFTexts : Chars(text) = chars

\* The characters the pattern /[.-]/g does not match.
NotPunctuation(c) == c \notin {".", "-"}

\* cpf.replace(/[.-]/g, '') for each CPF string of the model: the string of
\* the characters the pattern does not match.
Replaced ==
    [text \in CPFTexts |-> Text(SelectSeq(Chars(text), NotPunctuation))]

\* cleanCPF(cpf)
cleanCPF(cpf) == Replaced[cpf]

----------------------------------------------------------------------------
(* Recording an evaluation on an enrollment.                                *)

\* Mutant of IsValidGrade: every value that is not empty passes.
IsValidGrade_Any(grade) == grade # ""

\* The grades an evaluation may carry.
IsValidGrade(grade) == grade \in {"MANA", "MPA", "MA"}

\* The two kinds of evaluation an enrollment holds.
Kinds == {"teacher", "self"}

\* The records of one kind of an enrollment.
EvaluationsOf(enrollment, kind) ==
    IF kind = "teacher" THEN enrollment.evaluations
    ELSE enrollment.selfEvaluations

\* The enrollment with the records of one kind replaced.
WithEvaluations(enrollment, kind, evaluations) ==
    IF kind = "teacher"
    THEN [enrollment EXCEPT !.evaluations = evaluations]
    ELSE [enrollment EXCEPT !.selfEvaluations = evaluations]

\* The position of the record of the goal, 0 when there is none.
RECURSIVE FindGoalFrom(_, _, _)
FindGoalFrom(evaluations, goal, i) ==
    IF i > Len(evaluations) THEN 0
    ELSE IF evaluations[i].goal = goal THEN i
    ELSE FindGoalFrom(evaluations, goal, i + 1)

\* Mutant of removeEvaluation: the filter keeps the records of the goal in
\* place of the others.
removeEvaluation_KeepMatching(evaluations, goal) ==
    LET Keep(e) == e.goal = goal
    IN  SelectSeq(evaluations, Keep)

\* removeEvaluation(goal): the records of the other goals stay
removeEvaluation(evaluations, goal) ==
    LET Keep(e) == e.goal # goal
    IN  SelectSeq(evaluations, Keep)

\* Mutant of addOrUpdateEvaluation: a record is pushed without looking for
\* one of the same goal.
addOrUpdateEvaluation_Push(evaluations, goal, grade) ==
    Append(evaluations, [goal |-> goal, grade |-> grade])

\* addOrUpdateEvaluation(goal, grade): the record of the goal gets the
\* grade, or a record is added when the goal has none
addOrUpdateEvaluation(evaluations, goal, grade) ==
    LET k == FindGoalFrom(evaluations, goal, 1)
    IN  IF k = 0
        THEN Append(evaluations, [goal |-> goal, grade |-> grade])
        ELSE [evaluations EXCEPT ![k].grade = grade]

\* recordEvaluation(class, studentId, goal, grade, kind) on the enrollment
\* array of the class: the error raised ("ok" for none) and the array
\* afterwards.
recordEvaluation(enrollments, studentCPF, goal, grade, kind) ==
    LET k == findEnrollmentByStudentCPF(enrollments, cleanCPF(studentCPF))
    IN  IF k = 0
        THEN [error |-> "EnrollmentNotFound", enrollments |-> enrollments]
        ELSE LET before == EvaluationsOf(enrollments[k], kind)
             IN  IF grade = ""
                 THEN [error |-> "ok",
                       enrollments |->
                           [enrollments EXCEPT ![k] =
                               WithEvaluations(@, kind,
                                   removeEvaluation(before, goal))]]
                 ELSE IF ~IsValidGrade(grade)
                 THEN [error |-> "InvalidGrade", enrollments |-> enrollments]
                 ELSE [error |-> "ok",
                       enrollments |->
                           [enrollments EXCEPT ![k] =
                               WithEvaluations(@, kind,
                                   addOrUpdateEvaluation(before, goal, grade))]]

\* The goals, grades and CPFs evaluations are recorded with: two goals of
\* the rubric, every grade, the empty grade and a value that is no grade;
\* Ana's CPF plain and with punctuation, and Bia's.
RecordGoals == {EVALUATION_GOALS[1], EVALUATION_GOALS[2]}
RecordGrades == {"MANA", "MPA", "MA", "", "X"}
RecordCPFs == {getCPF(Ana), "111.111.111-11", getCPF(Bia)}

\* A class where Ana has just been enrolled.
InitEval ==
    /\ classes = <<Class("ESS", 1, 2024, 1)>>
    /\ arrays = <<addEnrollment(<<>>, Ana).enrollments>>
    /\ last = NoCall
    /\ PureIdle

\* An evaluation is recorded for an enrollment of classes[i].
RecordEvaluation(i, studentCPF, goal, grade, kind) ==
    /\ i \in DOMAIN classes
    /\ LET ref == classes[i].enrollments
           r == recordEvaluation(arrays[ref], studentCPF, goal, grade, kind)
       IN  /\ arrays' = [arrays EXCEPT ![ref] = r.enrollments]
           /\ last' = [op |-> "recordEvaluation", idx |-> i,
                       cpf |-> studentCPF, goal |-> goal, grade |-> grade,
                       kind |-> kind, result |-> r.error]
    /\ UNCHANGED <<classes, pureVars>>

NextEval ==
    \E i \in DOMAIN classes, studentCPF \in RecordCPFs, goal \in RecordGoals,
       grade \in RecordGrades, kind \in Kinds :
        RecordEvaluation(i, studentCPF, goal, grade, kind)

SpecEval == InitEval /\ [][NextEval]_vars

----------------------------------------------------------------------------
(* Claims about recording evaluations.                                      *)

\* The position of the enrollment a recording addresses: the one of the
\* student whose CPF is the CPF given, punctuation aside; 0 for none.
Addressed(enrollments, cpf) ==
    IF \E k \in DOMAIN enrollments :
           cleanCPF(enrollments[k].student.cpf) = cleanCPF(cpf)
    THEN CHOOSE k \in DOMAIN enrollments :
           cleanCPF(enrollments[k].student.cpf) = cleanCPF(cpf)
    ELSE 0

\* Some record of the list is about the goal.
HasRecord(evaluations, goal) ==
    \E j \in DOMAIN evaluations : evaluations[j].goal = goal

\* The records of the list about other goals, in their order.
OtherRecords(evaluations, goal) ==
    LET Other(e) == e.goal # goal
    IN  SelectSeq(evaluations, Other)

\* The other kind of evaluation.
OtherKind(kind) == IF kind = "teacher" THEN "self" ELSE "teacher"

\* The enrollment array of classes[i] after the step.
EnrollmentsAfter(i) == arrays'[classes'[i].enrollments]

\* The last step recorded something for an enrollment the class has.
RecordedForEnrollment ==
    /\ last'.op = "recordEvaluation"
    /\ last'.idx \in DOMAIN classes
    /\ Addressed(EnrollmentsOf(last'.idx), last'.cpf) # 0

\* C11: recording the empty grade for a student, goal and kind removes the
\* record of that goal and kind if there is one, keeps every other record,
\* and changes nothing when there is none (so repeating it changes nothing).
C11_EmptyGradeRemovesRecord ==
    [][ (RecordedForEnrollment /\ last'.grade = "")
        => LET k == Addressed(EnrollmentsOf(last'.idx), last'.cpf)
               before == EnrollmentsOf(last'.idx)[k]
               after == EnrollmentsAfter(last'.idx)[k]
               kind == last'.kind
               goal == last'.goal
           IN  /\ last'.result = "ok"
               /\ classes' = classes
               /\ Len(EnrollmentsAfter(last'.idx)) = Len(EnrollmentsOf(last'.idx))
               /\ after.student = before.student
               /\ ~HasRecord(EvaluationsOf(after, kind), goal)
               /\ OtherRecords(EvaluationsOf(after, kind), goal)
                      = OtherRecords(EvaluationsOf(before, kind), goal)
               /\ EvaluationsOf(after, OtherKind(kind))
                      = EvaluationsOf(before, OtherKind(kind))
               /\ ~HasRecord(EvaluationsOf(before, kind), goal)
                      => arrays' = arrays
      ]_vars

\* C11 witness: the empty grade was recorded for a goal as a teacher
\* evaluation; the goal has no teacher record, its self record and the
\* teacher record of the other goal are there.
C11_Witness ==
    /\ last.op = "recordEvaluation"
    /\ last.grade = ""
    /\ last.kind = "teacher"
    /\ last.result = "ok"
    /\ LET e == EnrollmentsOf(last.idx)[1]
       IN  /\ ~HasRecord(e.evaluations, last.goal)
           /\ Len(e.evaluations) = 1
           /\ HasRecord(e.selfEvaluations, last.goal)

\* C12: recording a value that is none of MANA, MPA, MA and the empty grade
\* fails with the invalid-grade error and leaves the teacher and self
\* records of the enrollment as they were.
C12_InvalidGradeRejected ==
    [][ (RecordedForEnrollment /\ last'.grade \notin {"MANA", "MPA", "MA", ""})
        => /\ last'.result = "InvalidGrade"
           /\ arrays' = arrays
           /\ classes' = classes
      ]_vars

\* C12 witness: the value X was refused for an enrollment that has teacher
\* and self records.
C12_Witness ==
    /\ last.op = "recordEvaluation"
    /\ last.grade = "X"
    /\ last.result = "InvalidGrade"
    /\ LET e == EnrollmentsOf(last.idx)[1]
       IN  e.evaluations # <<>> /\ e.selfEvaluations # <<>>

\* No two records of one kind of an enrollment are about the same goal.
OneRecordPerGoal ==
    \A i \in DOMAIN classes :
        \A k \in DOMAIN EnrollmentsOf(i) :
            \A kind \in Kinds :
                LET evaluations == EvaluationsOf(EnrollmentsOf(i)[k], kind)
                IN  \A j1, j2 \in DOMAIN evaluations :
                        j1 # j2 => evaluations[j1].goal # evaluations[j2].goal

\* C13: an enrollment holds at most one record per goal and kind; recording
\* a valid grade for a goal gives the goal's record of that kind the grade
\* (in place, when the goal had a record), keeps the records of the other
\* goals and leaves the records of the other kind as they were.
C13_UpsertOneRecordPerGoal ==
    /\ []OneRecordPerGoal
    /\ [][ (RecordedForEnrollment /\ last'.grade \in {"MANA", "MPA", "MA"})
           => LET k == Addressed(EnrollmentsOf(last'.idx), last'.cpf)
                  kind == last'.kind
                  goal == last'.goal
                  before == EvaluationsOf(EnrollmentsOf(last'.idx)[k], kind)
                  after == EvaluationsOf(EnrollmentsAfter(last'.idx)[k], kind)
              IN  /\ last'.result = "ok"
                  /\ \E j \in DOMAIN after :
                         after[j] = [goal |-> goal, grade |-> last'.grade]
                  /\ OtherRecords(after, goal) = OtherRecords(before, goal)
                  /\ Len(after) = IF HasRecord(before, goal) THEN Len(before)
                                  ELSE Len(before) + 1
                  /\ EvaluationsOf(EnrollmentsAfter(last'.idx)[k], OtherKind(kind))
                         = EvaluationsOf(EnrollmentsOf(last'.idx)[k], OtherKind(kind))
         ]_vars

\* C13 witness: a teacher grade was recorded for the goal of the first of
\* two teacher records, so the goal had its record before the other goal got
\* one and the grade replaced the one it held; the self record of the goal
\* holds another grade.
C13_Witness ==
    /\ last.op = "recordEvaluation"
    /\ last.kind = "teacher"
    /\ last.result = "ok"
    /\ last.grade = "MPA"
    /\ LET e == EnrollmentsOf(last.idx)[1]
       IN  /\ Len(e.evaluations) = 2
           /\ e.evaluations[1] = [goal |-> last.goal, grade |-> "MPA"]
           /\ e.selfEvaluations = <<[goal |-> last.goal, grade |-> "MA"]>>

----------------------------------------------------------------------------
(* Class.toJSON and the way back through Class.fromJSON.                    *)

\* Student.toJSON(): the fields of the student
StudentToJSON(student) == [name |-> student.name, cpf |-> getCPF(student)]

\* Enrollment.toJSON(): the student's JSON (cpf stands for student.cpf) and
\* the records of both kinds
EnrollmentToJSON(enrollment) ==
    [cpf |-> StudentToJSON(enrollment.student).cpf,
     evaluations |-> enrollment.evaluations,
     selfEvaluations |-> enrollment.selfEvaluations]

\* Mutant of toJSON: the enrollments field is left out.
toJSON_NoEnrollments(c, enrollments) ==
    [id |-> getClassId(c), topic |-> c.topic, semester |-> c.semester,
     year |-> c.year, hasEnrollments |-> FALSE, enrollments |-> <<>>]

\* Class.toJSON() of the object c whose enrollment array is `enrollments`
toJSON(c, enrollments) ==
    [id |-> getClassId(c), topic |-> c.topic, semester |-> c.semester,
     year |-> c.year, hasEnrollments |-> TRUE,
     enrollments |-> [k \in DOMAIN enrollments |->
                         EnrollmentToJSON(enrollments[k])]]

\* classes[i].toJSON()
CallToJSON(i) ==
    /\ i \in DOMAIN classes
    /\ Len(classes) = 1
    /\ json = NoJSON
    /\ json' = toJSON(classes[i], EnrollmentsOf(i))
    /\ last' = [op |-> "toJSON", idx |-> i, name |-> "", cpf |-> "",
                result |-> "ok"]
    /\ UNCHANGED <<classes, arrays, clientVars, persistVars, running, uiVars>>

\* Class.fromJSON(json, allStudents) on the value toJSON returned: a second
\* Class object, with an array of its own.
CallFromJSONBack ==
    /\ json # NoJSON
    /\ Len(classes) = 1
    /\ LET m == IF json.hasEnrollments
                THEN MapEnrollments(json.enrollments, AllStudents)
                ELSE [threw |-> FALSE, enrollments |-> <<>>]
           ref == Len(arrays) + 1
       IN  IF m.threw
           THEN /\ last' = [op |-> "fromJSON", idx |-> 0, name |-> "", cpf |-> "",
                            result |-> "throws"]
                /\ UNCHANGED <<classes, arrays>>
           ELSE /\ classes' = Append(classes,
                                     Class(json.topic, json.semester, json.year, ref))
                /\ arrays' = Append(arrays, m.enrollments)
                /\ last' = [op |-> "fromJSON", idx |-> 2, name |-> "", cpf |-> "",
                            result |-> "ok"]
    /\ UNCHANGED <<json, clientVars, persistVars, running, uiVars>>

InitJSON == InitClass

\* A Class object is built and changed as in SpecClass, then serialised
\* once and read back.
NextJSON ==
    \/ json = NoJSON /\ NextClass
    \/ \E i \in DOMAIN classes : CallToJSON(i)
    \/ CallFromJSONBack

SpecJSON == InitJSON /\ [][NextJSON]_vars

\* Every student enrolled in classes[i] is one of allStudents.
EnrolledAreListed(i) ==
    \A k \in DOMAIN EnrollmentsOf(i) :
        \E n \in DOMAIN AllStudents : AllStudents[n] = EnrollmentsOf(i)[k].student

----------------------------------------------------------------------------
(* The student routes of the server and the persistence of the students.    *)

\* At most this many saves wait in the setImmediate queue.
MaxPending == 2

\* new Student(name, cpf, email): the CPF is kept without its punctuation
Student(name, cpf, email) ==
    [name |-> name, cpf |-> cleanCPF(cpf), email |-> email]

\* StudentSet.findStudentByCPF(cpf): the position of the student, 0 for
\* undefined
findStudentByCPF(store, cpf) == FindStudentFrom(store, cpf, 1)

\* StudentSet.addStudent(student): a student whose CPF is in the set is
\* refused
addStudent(store, student) ==
    IF findStudentByCPF(store, getCPF(student)) # 0
    THEN [threw |-> TRUE, store |-> store]
    ELSE [threw |-> FALSE, store |-> Append(store, student)]

\* StudentSet.updateStudent(updatedStudent): the student with the CPF gets
\* the name and the email; no such student is an error
updateStudent(store, updatedStudent) ==
    LET k == findStudentByCPF(store, getCPF(updatedStudent))
    IN  IF k = 0 THEN [threw |-> TRUE, store |-> store]
        ELSE [threw |-> FALSE,
              store |-> [store EXCEPT ![k].name = updatedStudent.name,
                                      ![k].email = updatedStudent.email]]

\* StudentSet.removeStudent(cpf): whether a student was removed
removeStudent(store, cpf) ==
    LET k == findStudentByCPF(store, cpf)
    IN  IF k = 0 THEN [returned |-> FALSE, store |-> store]
        ELSE [returned |-> TRUE,
              store |-> SubSeq(store, 1, k - 1) \o SubSeq(store, k + 1, Len(store))]

\* The students array saveStudentsToFile writes
Snapshot(store) ==
    [k \in DOMAIN store |->
        [name |-> store[k].name, cpf |-> getCPF(store[k]),
         email |-> store[k].email]]

\* Mutant of saveStudentsToFile: the catch rethrows, so a write that fails
\* ends the process and its store with it.
saveStudentsToFile_Rethrow(store, file, written) ==
    IF written
    THEN [store |-> store, file |-> Snapshot(store), outcome |-> "ok"]
    ELSE [store |-> <<>>, file |-> file, outcome |-> "failed"]

\* saveStudentsToFile(): the file gets the snapshot of the store; when the
\* directory or the file cannot be written the error is logged and nothing
\* else happens.
saveStudentsToFile(store, file, written) ==
    IF written
    THEN [store |-> store, file |-> Snapshot(store), outcome |-> "ok"]
    ELSE [store |-> store, file |-> file, outcome |-> "failed"]

\* Mutant of triggerSave: the save is not queued.
triggerSave_Dropped(pending) == pending

\* triggerSave(): one more callback in the setImmediate queue
triggerSave(pending) == pending + 1

\* The bodies of the student requests: Ana with her CPF plain and with
\* punctuation, a new name and email for an update, and one body for each
\* field left out.
StudentBodies ==
    {[name |-> "Ana", cpf |-> "11111111111", email |-> "ana@cin.br"],
     [name |-> "Ana", cpf |-> "111.111.111-11", email |-> "ana@cin.br"],
     [name |-> "Ana Maria", cpf |-> "11111111111", email |-> "am@cin.br"],
     [name |-> "", cpf |-> "11111111111", email |-> "ana@cin.br"],
     [name |-> "Ana", cpf |-> "", email |-> "ana@cin.br"],
     [name |-> "Ana", cpf |-> "11111111111", email |-> ""]}

\* The :cpf of a request: Ana's plain and with punctuation, and one of no
\* student.
StudentCPFParams == {"11111111111", "111.111.111-11", "99999999999"}

\* Mutant of MissingStudentField: the email is not looked at.
MissingStudentField_NoEmail(body) == body.name = "" \/ body.cpf = ""

\* !name || !cpf || !email
MissingStudentField(body) == body.name = "" \/ body.cpf = "" \/ body.email = ""

\* !name || !email
MissingUpdateField(body) == body.name = "" \/ body.email = ""

StudentResponse(op, idx, body, cpf, status) ==
    [op |-> op, idx |-> idx, name |-> body.name, cpf |-> cpf, result |-> status]

NoBody == [name |-> "", cpf |-> "", email |-> ""]

\* POST /api/students
PostStudent(body) ==
    /\ IF MissingStudentField(body)
       THEN /\ last' = StudentResponse("POST /api/students", 0, body, body.cpf, "400")
            /\ UNCHANGED <<studentSet, pendingSaves>>
       ELSE LET r == addStudent(studentSet, Student(body.name, body.cpf, body.email))
            IN  IF r.threw
                THEN /\ last' = StudentResponse("POST /api/students", 0, body,
                                                body.cpf, "400")
                     /\ UNCHANGED <<studentSet, pendingSaves>>
                ELSE /\ pendingSaves < MaxPending
                     /\ studentSet' = r.store
                     /\ pendingSaves' = triggerSave(pendingSaves)
                     /\ last' = StudentResponse("POST /api/students", Len(r.store),
                                                body, body.cpf, "201")
    /\ UNCHANGED <<classes, arrays, json, dataFile, lastSave, running, clientVars, uiVars>>

\* PUT /api/students/:cpf
PutStudent(cpf, body) ==
    /\ IF MissingUpdateField(body)
       THEN /\ last' = StudentResponse("PUT /api/students/:cpf", 0, body, cpf, "400")
            /\ UNCHANGED <<studentSet, pendingSaves>>
       ELSE LET r == updateStudent(studentSet, Student(body.name, cpf, body.email))
            IN  IF r.threw
                THEN /\ last' = StudentResponse("PUT /api/students/:cpf", 0, body,
                                                cpf, "400")
                     /\ UNCHANGED <<studentSet, pendingSaves>>
                ELSE /\ pendingSaves < MaxPending
                     /\ studentSet' = r.store
                     /\ pendingSaves' = triggerSave(pendingSaves)
                     /\ last' = StudentResponse("PUT /api/students/:cpf",
                                    findStudentByCPF(r.store, cleanCPF(cpf)),
                                    body, cpf, "200")
    /\ UNCHANGED <<classes, arrays, json, dataFile, lastSave, running, clientVars, uiVars>>

\* DELETE /api/students/:cpf
DeleteStudent(cpf) ==
    /\ LET r == removeStudent(studentSet, cleanCPF(cpf))
       IN  IF ~r.returned
           THEN /\ last' = StudentResponse("DELETE /api/students/:cpf", 0, NoBody,
                                           cpf, "404")
                /\ UNCHANGED <<studentSet, pendingSaves>>
           ELSE /\ pendingSaves < MaxPending
                /\ studentSet' = r.store
                /\ pendingSaves' = triggerSave(pendingSaves)
                /\ last' = StudentResponse("DELETE /api/students/:cpf", 0, NoBody,
                                           cpf, "204")
    /\ UNCHANGED <<classes, arrays, json, dataFile, lastSave, running, clientVars, uiVars>>

\* GET /api/students/:cpf
GetStudent(cpf) ==
    /\ LET k == findStudentByCPF(studentSet, cleanCPF(cpf))
       IN  last' = StudentResponse("GET /api/students/:cpf", k, NoBody, cpf,
                                   IF k = 0 THEN "404" ELSE "200")
    /\ UNCHANGED <<classes, arrays, json, persistVars, running, clientVars, uiVars>>

\* The callback triggerSave gave to setImmediate runs; `written` tells
\* whether the directory and the file could be written.
RunSave(written) ==
    /\ pendingSaves > 0
    /\ LET r == saveStudentsToFile(studentSet, dataFile, written)
       IN  /\ studentSet' = r.store
           /\ dataFile' = r.file
           /\ lastSave' = r.outcome
    /\ pendingSaves' = pendingSaves - 1
    /\ UNCHANGED <<classes, arrays, last, json, running, clientVars, uiVars>>

\* The bodies and ids of the class requests the server gets here.
ServerClassBodies ==
    {b \in CompleteBodies : b.topic = "ESS"} \cup IncompleteBodies

ServerClassIds ==
    {getClassId(Class(b.topic, b.semester, b.year, 0)) :
        b \in {c \in CompleteBodies : c.topic = "ESS"}}

InitServer == ServerIdle /\ PureIdle

NextServer ==
    \/ \E body \in StudentBodies : PostStudent(body)
    \/ \E cpf \in StudentCPFParams, body \in StudentBodies : PutStudent(cpf, body)
    \/ \E cpf \in StudentCPFParams : DeleteStudent(cpf)
    \/ \E cpf \in StudentCPFParams : GetStudent(cpf)
    \/ \E written \in BOOLEAN : RunSave(written)
    \/ \E body \in ServerClassBodies : PostClass(body)
    \/ \E id \in ServerClassIds, body \in ServerClassBodies : PutClass(id, body)
    \/ \E id \in ServerClassIds : DeleteClass(id)

SpecServer == InitServer /\ [][NextServer]_vars

----------------------------------------------------------------------------
(* Claims about the student and class routes and the persistence.           *)

\* Some student of the store has the CPF, punctuation aside.
StudentStored(store, cpf) ==
    \E k \in DOMAIN store : cleanCPF(store[k].cpf) = cleanCPF(cpf)

\* Some class of the store has the id.
ClassStored(store, id) ==
    \E i \in DOMAIN store : getClassId(store[i]) = id

\* The step leaves the student store, the class store and the enrollment
\* arrays as they were.
StoresUnchanged ==
    /\ studentSet' = studentSet
    /\ classes' = classes
    /\ arrays' = arrays

\* C15: a GET, PUT or DELETE of /api/students/:cpf whose CPF is not in the
\* student store, and a PUT or DELETE of /api/classes/:id whose id is not
\* in the class store, is answered 404 and leaves both stores unchanged.
C15_UnknownTargetIs404 ==
    [][ /\ \A cpf \in StudentCPFParams :
              ((\/ GetStudent(cpf)
                \/ DeleteStudent(cpf)
                \/ \E body \in StudentBodies : PutStudent(cpf, body))
               /\ ~StudentStored(studentSet, cpf))
              => (last'.result = "404" /\ StoresUnchanged)
        /\ \A id \in ServerClassIds :
              ((\/ DeleteClass(id)
                \/ \E body \in ServerClassBodies : PutClass(id, body))
               /\ ~ClassStored(classes, id))
              => (last'.result = "404" /\ StoresUnchanged)
      ]_vars

\* The fields a request body lacks: "" and 0 are what a body without the
\* field gives.
LacksStudentField(body) ==
    \E f \in {"name", "cpf", "email"} : body[f] = ""

LacksUpdateField(body) ==
    \E f \in {"name", "email"} : body[f] = ""

LacksClassField(body) ==
    body.topic = "" \/ body.semester = 0 \/ body.year = 0

\* C16: a POST of /api/students without name, cpf or email, a PUT of
\* /api/students/:cpf without name or email, and a POST or PUT of a class
\* without topic, semester or year, is answered 400, leaves both stores
\* unchanged and queues no save.
C16_ValidationFailureIs400 ==
    [][ /\ \A body \in StudentBodies :
              (\/ LacksStudentField(body) /\ PostStudent(body)
               \/ /\ LacksUpdateField(body)
                  /\ \E cpf \in StudentCPFParams : PutStudent(cpf, body))
              => /\ last'.result = "400"
                 /\ StoresUnchanged
                 /\ pendingSaves' = pendingSaves
        /\ \A body \in ServerClassBodies :
              (/\ LacksClassField(body)
               /\ \/ PostClass(body)
                  \/ \E id \in ServerClassIds : PutClass(id, body))
              => /\ last'.result = "400"
                 /\ StoresUnchanged
                 /\ pendingSaves' = pendingSaves
      ]_vars

\* C16 witness: an update without a name was refused while Ana is stored, a
\* class is stored and no save waits.
C16_Witness ==
    /\ last.op = "PUT /api/students/:cpf"
    /\ last.name = ""
    /\ last.result = "400"
    /\ studentSet # <<>>
    /\ classes # <<>>
    /\ pendingSaves = 0

\* The file lists the students of the store, in order, with their fields.
FileMatchesStore(file, store) ==
    /\ Len(file) = Len(store)
    /\ \A k \in DOMAIN store :
          /\ file[k].name = store[k].name
          /\ file[k].cpf = store[k].cpf
          /\ file[k].email = store[k].email

\* The step is a student request that changed the store and answered so.
StudentMutationDone ==
    /\ \/ \E body \in StudentBodies : PostStudent(body)
       \/ \E cpf \in StudentCPFParams, body \in StudentBodies : PutStudent(cpf, body)
       \/ \E cpf \in StudentCPFParams : DeleteStudent(cpf)
    /\ last'.result \in {"200", "201", "204"}

\* C17: every successful POST, PUT or DELETE of a student queues one save;
\* a save that writes, writes the store as it is between two handlers; and
\* when no save waits and the last one wrote, the student list of the file
\* is the store.
C17_FileFollowsStore ==
    /\ []((pendingSaves = 0 /\ lastSave # "failed")
             => FileMatchesStore(dataFile, studentSet))
    /\ [][ StudentMutationDone => pendingSaves' = pendingSaves + 1 ]_vars
    /\ [][ ((\E written \in BOOLEAN : RunSave(written)) /\ lastSave' = "ok")
           => (FileMatchesStore(dataFile', studentSet) /\ studentSet' = studentSet)
         ]_vars

\* C17 witness: Ana was added, renamed by an update, and every save queued
\* has run and written: the file holds her new name.
C17_Witness ==
    /\ pendingSaves = 0
    /\ lastSave = "ok"
    /\ Len(studentSet) = 1
    /\ studentSet[1].name = "Ana Maria"
    /\ Len(dataFile) = 1
    /\ dataFile[1].name = "Ana Maria"

\* C18: a save that fails leaves the response of the request, the student
\* store and the class store as they were, and is not queued again.
C18_FailedSaveChangesNothing ==
    [][ ((\E written \in BOOLEAN : RunSave(written)) /\ lastSave' = "failed")
        => /\ last' = last
           /\ StoresUnchanged
           /\ dataFile' = dataFile
           /\ pendingSaves' = pendingSaves - 1
      ]_vars

\* C18 witness: the only save queued for the creation of Ana failed; the
\* response stays 201, Ana is in the store and the file does not list her.
C18_Witness ==
    /\ lastSave = "failed"
    /\ pendingSaves = 0
    /\ last.op = "POST /api/students"
    /\ last.result = "201"
    /\ Len(studentSet) = 1
    /\ dataFile = <<>>

----------------------------------------------------------------------------
(* Claim about the CPF used in lookups.                                     *)

\* The student part of C20: a GET, DELETE or complete PUT of
\* /api/students/:cpf whose CPF, punctuation aside, is the CPF of a stored
\* student, finds that student.
StudentRoutesResolve ==
    \A cpf \in StudentCPFParams :
        ((\/ GetStudent(cpf)
          \/ DeleteStudent(cpf)
          \/ \E body \in StudentBodies :
                ~LacksUpdateField(body) /\ PutStudent(cpf, body))
         /\ StudentStored(studentSet, cpf))
        => last'.result \in {"200", "204"}

\* The Class part of C20: removeEnrollment with a CPF that, punctuation
\* aside, is the CPF of an enrolled student, finds and removes that
\* enrollment.
ClassMethodsResolve ==
    (/\ last'.op = "removeEnrollment"
     /\ last'.idx \in DOMAIN classes
     /\ Addressed(EnrollmentsOf(last'.idx), last'.cpf) # 0)
    => /\ last'.result = "true"
       /\ Len(EnrollmentsAfter(last'.idx)) = Len(EnrollmentsOf(last'.idx)) - 1

\* C20: every lookup by CPF, in the student routes and in the Class
\* methods, compares CPFs without their punctuation, so a CPF written
\* 111.111.111-11 and the same CPF written 11111111111 find the same
\* student and the same enrollment.
C20_LookupsUseNormalizedCPF ==
    [][ StudentRoutesResolve /\ ClassMethodsResolve ]_vars

\* The student routes alone.
StudentRoutesUseNormalizedCPF == [][ StudentRoutesResolve ]_vars

----------------------------------------------------------------------------
(* The class update, statement by statement, and the requests around it.    *)

\* Mutant of CanDispatch: the handler awaits between its statements, so a
\* second request is taken while one is under way.
CanDispatch_Yielding(inFlight) == Len(inFlight) < 2

\* The event loop gives a request to its handler when no handler is under
\* way: the handlers are synchronous and run to their end.
CanDispatch(inFlight) == inFlight = <<>>

\* The bodies of the class requests here: two complete bodies that differ
\* in topic and semester, and the bodies with a field left out.
AtomicCompleteBodies ==
    {[topic |-> "ESS", semester |-> 1, year |-> 2024],
     [topic |-> "LP", semester |-> 2, year |-> 2024]}

AtomicBodies == AtomicCompleteBodies \cup IncompleteBodies

AtomicClassIds ==
    {getClassId(Class(b.topic, b.semester, b.year, 0)) : b \in AtomicCompleteBodies}

\* The fields of a Class object a response shows.
ClassFields(c) == [topic |-> c.topic, semester |-> c.semester, year |-> c.year]

AtomicResponse(op, idx, body, status) ==
    [op |-> op, idx |-> idx, name |-> "", cpf |-> "", result |-> status,
     body |-> body]

\* PUT /api/classes/:id, up to the lookup of the class
BeginPutClass(id, body) ==
    /\ CanDispatch(running)
    /\ IF MissingField(body)
       THEN /\ last' = AtomicResponse("PUT /api/classes/:id", 0, body, "400")
            /\ UNCHANGED running
       ELSE LET existingClass == findClassById(classes, id)
            IN  IF existingClass = 0
                THEN /\ last' = AtomicResponse("PUT /api/classes/:id", 0, body, "404")
                     /\ UNCHANGED running
                ELSE /\ running' = Append(running,
                                       [pc |-> "setTopic", idx |-> existingClass,
                                        body |-> body])
                     /\ UNCHANGED last
    /\ UNCHANGED <<classes, arrays, json, persistVars, clientVars, uiVars>>

\* PUT /api/classes/:id, one statement of the update: setTopic,
\* setSemester, setYear, then res.json
StepPutClass(h) ==
    /\ h \in DOMAIN running
    /\ LET pcOf == running[h].pc
           idx == running[h].idx
           body == running[h].body
       IN  \/ /\ pcOf = "setTopic"
              /\ classes' = [classes EXCEPT ![idx].topic = body.topic]
              /\ running' = [running EXCEPT ![h].pc = "setSemester"]
              /\ UNCHANGED last
           \/ /\ pcOf = "setSemester"
              /\ classes' = [classes EXCEPT ![idx].semester = body.semester]
              /\ running' = [running EXCEPT ![h].pc = "setYear"]
              /\ UNCHANGED last
           \/ /\ pcOf = "setYear"
              /\ classes' = [classes EXCEPT ![idx].year = body.year]
              /\ running' = [running EXCEPT ![h].pc = "res.json"]
              /\ UNCHANGED last
           \/ /\ pcOf = "res.json"
              /\ last' = AtomicResponse("PUT /api/classes/:id", idx, body, "200")
              /\ running' = SubSeq(running, 1, h - 1)
                                \o SubSeq(running, h + 1, Len(running))
              /\ UNCHANGED classes
    /\ UNCHANGED <<arrays, json, persistVars, clientVars, uiVars>>

\* GET /api/classes
GetClasses ==
    /\ CanDispatch(running)
    /\ last' = AtomicResponse("GET /api/classes", 0,
                              [i \in DOMAIN classes |-> ClassFields(classes[i])],
                              "200")
    /\ UNCHANGED <<classes, arrays, json, persistVars, running, clientVars, uiVars>>

InitAtomic == ServerIdle /\ PureIdle

NextAtomic ==
    \/ \E body \in AtomicBodies : CanDispatch(running) /\ PostClass(body)
    \/ \E id \in AtomicClassIds, body \in AtomicBodies : BeginPutClass(id, body)
    \/ \E h \in DOMAIN running : StepPutClass(h)
    \/ GetClasses

SpecAtomic == InitAtomic /\ [][NextAtomic]_vars

\* C19: every server operation is one step for the others: a GET shows each
\* class with the topic, semester and year of one whole request, never a
\* part of an update; and when an update answers 200 the class has the three
\* fields of that request, so the request handled last decides.
C19_UpdatesAreAtomic ==
    /\ [](last.op = "GET /api/classes"
            => \A i \in DOMAIN last.body : last.body[i] \in AtomicCompleteBodies)
    /\ [][ (last' # last /\ last'.op = "PUT /api/classes/:id" /\ last'.result = "200")
           => ClassFields(classes'[last'.idx]) = last'.body ]_vars

\* C19 witness: an update answered 200 and gave a class the topic and the
\* semester of its body, while the other class keeps the other body's.
C19_Witness ==
    /\ last.op = "PUT /api/classes/:id"
    /\ last.result = "200"
    /\ Len(classes) = 2
    /\ last.body.topic = "LP"
    /\ last.idx = 1
    /\ ClassFields(classes[1]) = last.body
    /\ ClassFields(classes[2]).topic = "ESS"

----------------------------------------------------------------------------
(* The comparison view of the Evaluations component: the two cells of one  *)
(* student for one goal (SpecCell).                                         *)

\* getDiscrepancyClass: '' when a grade is missing, 'match' for the same
\* grade twice, 'discrepancy' for any two different grades.
getDiscrepancyClass(evaluation, selfEvaluation) ==
    IF ~TruthyArg(evaluation) \/ ~TruthyArg(selfEvaluation) THEN ""
    ELSE IF evaluation = selfEvaluation THEN "match"
    ELSE "discrepancy"

\* map[goal] || '' as the comparison view reads a grade.
OrEmpty(value) == IF TruthyArg(value) THEN value ELSE ""

\* The UTF-16 code unit of a character of a CPF string.
CharCode(c) ==
    CASE c = "-" -> 45 [] c = "." -> 46
      [] c = "0" -> 48 [] c = "1" -> 49 [] c = "2" -> 50 [] c = "3" -> 51
      [] c = "4" -> 52 [] c = "5" -> 53 [] c = "6" -> 54 [] c = "7" -> 55
      [] c = "8" -> 56 [] c = "9" -> 57

\* cpf.charCodeAt(0)
charCodeAt0(cpf) == CharCode(Chars(cpf)[1])

\* The backgroundColor of a cell of the comparison view.
backgroundColor(discrepancyClass, cpf) ==
    IF discrepancyClass = "discrepancy" THEN "#fef3c7"
    ELSE IF charCodeAt0(cpf) % 2 = 0 THEN "#f0f9ff" ELSE "#ffffff"

\* The pair of cells the comparison view renders for one goal of the student
\* with this CPF, from the values the two grade maps hold for the goal.
ComparisonCell(cpf, teacherGrade, selfGrade) ==
    LET evaluation == OrEmpty(teacherGrade)
        selfEvaluation == OrEmpty(selfGrade)
        discrepancyClass == getDiscrepancyClass(evaluation, selfEvaluation)
    IN  [cpf |-> cpf,
         discrepancyClass |-> discrepancyClass,
         infoButton |-> compareGoal(evaluation, selfEvaluation),
         evaluationBackground |-> backgroundColor(discrepancyClass, cpf),
         selfBackground |-> backgroundColor(discrepancyClass, cpf)]

\* What a grade map holds for a goal: a grade the server accepted, or nothing.
CellGrades == ValidGrades \cup {JsUndefined}

\* The students of the rows.
CellCPFs == {"11111111111", "22222222222", "33333333333", "99999999999"}

InitCell ==
    /\ teacherEval \in CellGrades
    /\ selfEval \in CellGrades
    /\ hasDiscrepancy = FALSE
    /\ \E cpf \in CellCPFs : cell = [NoCell EXCEPT !.cpf = cpf]
    /\ pc = "call"
    /\ DiscIdle
    /\ classes = <<>> /\ arrays = <<>> /\ last = NoCall
    /\ json = NoJSON /\ studentSet = <<>> /\ dataFile = <<>>
    /\ pendingSaves = 0 /\ lastSave = "none" /\ running = <<>>
    /\ classesState = <<>> /\ selectedClassId = "" /\ selectedClass = NoClass
    /\ isLoading = FALSE /\ showScheduler = FALSE /\ scheduledGoal = ""
    /\ days = Num(0) /\ hours = Num(0) /\ minutes = Num(0)
    /\ scheduledDate = NoDate
    /\ modal = "" /\ now = 0
    /\ requests = <<>> /\ serverData = <<>> /\ reported = {}

\* The comparison view renders the row's cells for the goal.
RenderCell ==
    /\ pc = "call"
    /\ cell' = ComparisonCell(cell.cpf, teacherEval, selfEval)
    /\ hasDiscrepancy' = cell'.infoButton
    /\ pc' = "done"
    /\ UNCHANGED <<teacherEval, selfEval, discVars, classes, arrays, last,
                   json, persistVars, running, loadVars, schedulerVars,
                   netVars>>

NextCell == RenderCell

SpecCell == InitCell /\ [][NextCell]_vars

\* The student's grade understates the teacher's.
Understates(t, s) ==
    t \in ValidGrades /\ s \in ValidGrades /\ Rank(s) < Rank(t)

\* C21: understatement is never flagged: when both grades of a goal are valid
\* and the self grade ranks below the teacher's, compareGoal is false and
\* the comparison view marks the two cells exactly as it marks them for two
\* equal grades (same discrepancy class, same backgrounds, no info button).
C21_UnderstatementNeverFlagged ==
    (pc = "done" /\ Understates(teacherEval, selfEval)) =>
        /\ hasDiscrepancy = FALSE
        /\ cell = ComparisonCell(cell.cpf, teacherEval, teacherEval)

----------------------------------------------------------------------------
(* The Evaluations component as a state machine: its states, its effects,  *)
(* the requests it has in flight and the server that answers them.         *)

\* A class as GET /api/classes returns it, cut down to what the component
\* reads here: its id, how many students are enrolled, and the grade of the
\* first enrolled student for the goal Requirements.
UiClass(id, enrollments, grade) ==
    [id |-> id, enrollments |-> enrollments, grade |-> grade]

\* The grades the teacher picks in the evaluation table.
UiGrades == {"MA", "MPA"}

\* Two classes: one with an enrolled student, one without.
ESS(grade) == UiClass("ESS-2024-1", 1, grade)
LP == UiClass("LP-2024-2", 0, "")

\* classes.find(c => c.id === id) || null
find(list, id) ==
    IF \E i \in DOMAIN list : list[i].id = id
    THEN list[CHOOSE i \in DOMAIN list :
                  /\ list[i].id = id
                  /\ \A j \in 1..(i - 1) : list[j].id # id]
    ELSE NoClass

\* The body of the selected-class effect.
selectedClassEffect(classId, list) ==
    IF classId # "" THEN find(list, classId) ELSE NoClass

\* Mutant of selectedClassAfter: the effect depends on selectedClassId only.
selectedClassAfter_IdOnly(idBefore, idAfter, classesSet, list, current) ==
    IF idBefore # idAfter THEN selectedClassEffect(idAfter, list) ELSE current

\* selectedClass after a render: the effect runs when selectedClassId holds
\* a different string or setClasses was given an array (a new reference).
selectedClassAfter(idBefore, idAfter, classesSet, list, current) ==
    IF idBefore # idAfter \/ classesSet
    THEN selectedClassEffect(idAfter, list) ELSE current

\* Number(x) || 0 for a state that holds a number or "".
NumberOrZero(x) == IF x = EmptyInput THEN 0 ELSE x[1]

\* ((d * 24 + h) * 60 + m) * 60 * 1000
totalMs(d, h, m) ==
    ((NumberOrZero(d) * 24 + NumberOrZero(h)) * 60 + NumberOrZero(m)) * 60 * 1000

\* Mutant of scheduledDateEffect: a delay of zero gets a date too.
scheduledDateEffect_ZeroToo(d, h, m, clock) ==
    IF totalMs(d, h, m) >= 0 THEN clock + totalMs(d, h, m) ELSE NoDate

\* The body of the scheduled-date effect, run when Date.now() is clock.
scheduledDateEffect(d, h, m, clock) ==
    IF totalMs(d, h, m) > 0 THEN clock + totalMs(d, h, m) ELSE NoDate

\* scheduledDate after a render: the effect runs when days, hours or
\* minutes holds a different value.
scheduledDateAfter(before, after, clock, current) ==
    IF before # after
    THEN scheduledDateEffect(after[1], after[2], after[3], clock)
    ELSE current

\* A request the component has sent. state is "sent" until the server has
\* answered, then "ok" or "failed" until the answer reaches the component;
\* response is the body of an answered GET /api/classes; newest tells that
\* no getAllClasses has been sent after this one.
Request(kind, classId, goal, value) ==
    [kind |-> kind, classId |-> classId, goal |-> goal, value |-> value,
     state |-> "sent", response |-> <<>>, newest |-> TRUE]

\* The requests with request i taken out.
Without(reqs, i) ==
    [j \in 1..(Len(reqs) - 1) |-> IF j < i THEN reqs[j] ELSE reqs[j + 1]]

\* loadClasses up to its await: ClassService.getAllClasses() is sent. (The
\* caller sets isLoading.)
SendGetAllClasses(reqs) ==
    Append([j \in DOMAIN reqs |->
                IF reqs[j].kind = "getAllClasses"
                THEN [reqs[j] EXCEPT !.newest = FALSE] ELSE reqs[j]],
           Request("getAllClasses", "", "", ""))

\* What the component has done last, and how it ended.
Did(op, result) == [NoCall EXCEPT !.op = op, !.result = result]

\* The component returns the loading placeholder while isLoading is true;
\* otherwise it renders the class select, and for a selected class with
\* enrolled students the tables, the scheduler and the request buttons.
Rendered == ~isLoading
ClassRendered ==
    Rendered /\ selectedClass # NoClass /\ selectedClass.enrollments > 0

\* The most requests the model lets the teacher have in flight at once.
MaxInFlight == 2

\* The last reading of the browser's clock the model reaches, in ms.
MaxClock == 1

\* What the state of a number input can hold: "" for an emptied field, or
\* the number typed (min="0" does not stop a negative number being typed).
SchedulerInputs == {EmptyInput, Num(-1), Num(0), Num(1)}

\* The options of the scheduler's goal select that the model picks.
SchedulerGoals == {"", "Requirements"}

\* The titles of the modals.
NoClassModal == "Selecione uma turma antes de agendar."
NoGoalModal == "Selecione uma meta."
NoDateModal == "Informe um tempo valido para o agendamento."
SuccessModal == "Sucesso!"

\* The messages passed to onError.
LoadFailed == "Failed to load classes"
UpdateFailed == "Failed to update evaluation"
ScheduleFailed == "Erro ao agendar"
RequestFailed == "err.message"

\* Everything that is not the component, its requests or its server.
outsideVars == <<compareVars, discVars, pc, classes, arrays, json,
                 persistVars, running, cellVars>>

\* The browser's clock advances.
Tick ==
    /\ now < MaxClock
    /\ now' = now + 1
    /\ UNCHANGED <<outsideVars, last, loadVars, showScheduler, scheduledGoal,
                   days, hours, minutes, scheduledDate, modal, netVars>>

\* The button "Agendar solicitação": setShowScheduler(true).
OpenScheduler ==
    /\ ClassRendered
    /\ showScheduler' = TRUE
    /\ UNCHANGED <<outsideVars, last, loadVars, scheduledGoal, days, hours,
                   minutes, scheduledDate, modal, now, netVars>>

\* The goal select of the scheduler: setScheduledGoal(e.target.value).
ChooseGoal(goal) ==
    /\ ClassRendered /\ showScheduler
    /\ scheduledGoal' = goal
    /\ UNCHANGED <<outsideVars, last, loadVars, showScheduler, days, hours,
                   minutes, scheduledDate, modal, now, netVars>>

\* The three number inputs: the state is set, and after the render the
\* scheduled-date effect runs if the value differs.
SetDays(value) ==
    /\ ClassRendered /\ showScheduler
    /\ days' = value
    /\ scheduledDate' = scheduledDateAfter(<<days, hours, minutes>>,
                            <<value, hours, minutes>>, now, scheduledDate)
    /\ UNCHANGED <<outsideVars, last, loadVars, showScheduler, scheduledGoal,
                   hours, minutes, modal, now, netVars>>

SetHours(value) ==
    /\ ClassRendered /\ showScheduler
    /\ hours' = value
    /\ scheduledDate' = scheduledDateAfter(<<days, hours, minutes>>,
                            <<days, value, minutes>>, now, scheduledDate)
    /\ UNCHANGED <<outsideVars, last, loadVars, showScheduler, scheduledGoal,
                   days, minutes, modal, now, netVars>>

SetMinutes(value) ==
    /\ ClassRendered /\ showScheduler
    /\ minutes' = value
    /\ scheduledDate' = scheduledDateAfter(<<days, hours, minutes>>,
                            <<days, hours, value>>, now, scheduledDate)
    /\ UNCHANGED <<outsideVars, last, loadVars, showScheduler, scheduledGoal,
                   days, hours, modal, now, netVars>>

\* The button "Fechar" of the modal: setModal(null).
closeModal ==
    /\ modal # ""
    /\ modal' = ""
    /\ UNCHANGED <<outsideVars, last, loadVars, showScheduler, scheduledGoal,
                   days, hours, minutes, scheduledDate, now, netVars>>

\* Mutant of totalHours: the minutes are left out.
totalHours_NoMinutes(d, h, m) ==
    <<(NumberOrZero(d) * 24 + NumberOrZero(h)) * 60, 60>>

\* ((Number(days) || 0) * 24) + (Number(hours) || 0) +
\* ((Number(minutes) || 0) / 60), as a fraction <<numerator, denominator>>.
totalHours(d, h, m) ==
    <<(NumberOrZero(d) * 24 + NumberOrZero(h)) * 60 + NumberOrZero(m), 60>>

\* Mutant of ScheduleChecks: the goal is not checked.
ScheduleChecks_NoGoal(class, goal, date) ==
    IF class = NoClass THEN NoClassModal
    ELSE IF date = NoDate THEN NoDateModal
    ELSE ""

\* The checks of the schedule button of Evaluations: the title of the modal
\* that the first failing check opens, "" when all three pass.
ScheduleChecks(class, goal, date) ==
    IF class = NoClass THEN NoClassModal
    ELSE IF goal = "" THEN NoGoalModal
    ELSE IF date = NoDate THEN NoDateModal
    ELSE ""

\* The schedule button of Evaluations, up to its await: after the checks,
\* EnrollmentService.scheduleOneTime(selectedClass.id, scheduledGoal,
\* totalHours) is sent. The model clicks it while nothing is in flight.
ClickSchedule ==
    /\ ClassRendered /\ showScheduler
    /\ requests = <<>>
    /\ LET failed == ScheduleChecks(selectedClass, scheduledGoal, scheduledDate)
       IN  IF failed # ""
           THEN /\ modal' = failed
                /\ last' = Did("schedule", "modal")
                /\ UNCHANGED requests
           ELSE /\ requests' = Append(requests,
                        Request("scheduleOneTime", selectedClass.id,
                                scheduledGoal, totalHours(days, hours, minutes)))
                /\ last' = Did("schedule", "sent")
                /\ UNCHANGED modal
    /\ UNCHANGED <<outsideVars, loadVars, showScheduler, scheduledGoal, days,
                   hours, minutes, scheduledDate, now, serverData, reported>>

\* The schedule button of the SelfEvaluation component, whose own form
\* states are not modelled: onClick={() => true}.
ClickScheduleSelfEvaluation ==
    /\ last' = Did("scheduleSelfEvaluation", "")
    /\ UNCHANGED <<outsideVars, uiVars>>

\* The class list with the grade of the class of this id replaced.
WithGrade(list, classId, grade) ==
    [i \in DOMAIN list |->
        IF list[i].id = classId THEN [list[i] EXCEPT !.grade = grade]
        ELSE list[i]]

\* The server answers request i, with success or not. GET /api/classes
\* answers the class list of that moment; an evaluation update of an
\* enrolled class stores the grade; no answer can be a success for a class
\* the server does not hold.
ServerAnswers(i, ok) ==
    /\ i \in DOMAIN requests
    /\ requests[i].state = "sent"
    /\ LET r == requests[i]
           held == find(serverData, r.classId) # NoClass
       IN  /\ (ok /\ r.kind # "getAllClasses") => held
           /\ requests' =
                [requests EXCEPT
                    ![i].state = IF ok THEN "ok" ELSE "failed",
                    ![i].response =
                        IF ok /\ r.kind = "getAllClasses"
                        THEN serverData ELSE <<>>]
           /\ serverData' =
                IF ok /\ r.kind = "updateEvaluation"
                THEN WithGrade(serverData, r.classId, r.value)
                ELSE serverData
    /\ UNCHANGED <<outsideVars, last, loadVars, schedulerVars, reported>>

\* Mutant of loadClassesSettled: finally is dropped, so a failed request
\* leaves isLoading as it was.
loadClassesSettled_NoFinally(r, list, loading, errors) ==
    IF r.state = "ok"
    THEN [classes |-> r.response, set |-> TRUE, isLoading |-> FALSE,
          reported |-> errors]
    ELSE [classes |-> list, set |-> FALSE, isLoading |-> loading,
          reported |-> errors \cup {LoadFailed}]

\* loadClasses from its await on, for the settled request r: setClasses on
\* success, onError in the catch, setIsLoading(false) in finally. set tells
\* whether setClasses was called.
loadClassesSettled(r, list, loading, errors) ==
    IF r.state = "ok"
    THEN [classes |-> r.response, set |-> TRUE, isLoading |-> FALSE,
          reported |-> errors]
    ELSE [classes |-> list, set |-> FALSE, isLoading |-> FALSE,
          reported |-> errors \cup {LoadFailed}]

\* The answer to a getAllClasses reaches the component: loadClasses
\* resumes, and after the render the selected-class effect runs.
GetAllClassesSettles(i) ==
    /\ i \in DOMAIN requests
    /\ requests[i].kind = "getAllClasses"
    /\ requests[i].state # "sent"
    /\ LET r == requests[i]
           after == loadClassesSettled(r, classesState, isLoading, reported)
       IN  /\ classesState' = after.classes
           /\ isLoading' = after.isLoading
           /\ reported' = after.reported
           /\ selectedClass' =
                selectedClassAfter(selectedClassId, selectedClassId,
                                   after.set, after.classes, selectedClass)
           /\ last' = Did("getAllClasses",
                          IF r.state = "failed" THEN "failed"
                          ELSE IF r.newest THEN "newest" ELSE "older")
    /\ requests' = Without(requests, i)
    /\ UNCHANGED <<outsideVars, selectedClassId, schedulerVars, serverData>>

\* The answer to a scheduleOneTime reaches the component: on success the
\* modal opens, the form is closed and reset and loadClasses() is called;
\* on failure the catch calls onError.
ScheduleSettles(i) ==
    /\ i \in DOMAIN requests
    /\ requests[i].kind = "scheduleOneTime"
    /\ requests[i].state # "sent"
    /\ IF requests[i].state = "ok"
       THEN /\ modal' = SuccessModal
            /\ showScheduler' = FALSE
            /\ scheduledGoal' = ""
            /\ days' = Num(0)
            /\ hours' = Num(0)
            /\ minutes' = Num(0)
            /\ scheduledDate' =
                    scheduledDateAfter(<<days, hours, minutes>>,
                                       <<Num(0), Num(0), Num(0)>>, now, NoDate)
            /\ isLoading' = TRUE
            /\ requests' = SendGetAllClasses(Without(requests, i))
            /\ last' = Did("scheduleOneTime", "ok")
            /\ UNCHANGED reported
       ELSE /\ reported' = reported \cup {ScheduleFailed}
            /\ requests' = Without(requests, i)
            /\ last' = Did("scheduleOneTime", "failed")
            /\ UNCHANGED <<modal, showScheduler, scheduledGoal, days, hours,
                           minutes, scheduledDate, isLoading>>
    /\ UNCHANGED <<outsideVars, classesState, selectedClassId, selectedClass,
                   now, serverData>>

\* handleClassSelection: setSelectedClassId, and after the render the
\* selected-class effect. The options are "" and the classes of the list.
handleClassSelection(classId) ==
    /\ Rendered
    /\ classId = "" \/ \E i \in DOMAIN classesState : classesState[i].id = classId
    /\ selectedClassId' = classId
    /\ selectedClass' = selectedClassAfter(selectedClassId, classId, FALSE,
                                           classesState, selectedClass)
    /\ UNCHANGED <<outsideVars, last, classesState, isLoading, schedulerVars,
                   netVars>>

\* SpecScheduler starts once the class list has loaded and the teacher has
\* selected the class with an enrolled student.
InitScheduler ==
    /\ CompareIdle /\ DiscIdle /\ pc = "done"
    /\ classes = <<>> /\ arrays = <<>>
    /\ last = Did("getAllClasses", "newest")
    /\ json = NoJSON /\ studentSet = <<>> /\ dataFile = <<>>
    /\ pendingSaves = 0 /\ lastSave = "none" /\ running = <<>>
    /\ cell = NoCell
    /\ serverData = <<ESS("MA")>>
    /\ classesState = serverData
    /\ selectedClassId = "ESS-2024-1"
    /\ selectedClass = ESS("MA")
    /\ isLoading = FALSE
    /\ showScheduler = FALSE /\ scheduledGoal = ""
    /\ days = Num(0) /\ hours = Num(0) /\ minutes = Num(0)
    /\ scheduledDate = NoDate
    /\ modal = "" /\ now = 0
    /\ requests = <<>> /\ reported = {}

\* What the model types into the number inputs while it follows the
\* schedule requests.
FormInputs == {EmptyInput, Num(1)}

NextScheduler ==
    \/ OpenScheduler
    \/ \E goal \in SchedulerGoals : ChooseGoal(goal)
    \/ \E value \in FormInputs : SetDays(value)
    \/ \E value \in FormInputs : SetHours(value)
    \/ \E value \in FormInputs : SetMinutes(value)
    \/ closeModal
    \/ ClickSchedule
    \/ ClickScheduleSelfEvaluation
    \/ \E i \in 1..MaxInFlight, ok \in BOOLEAN : ServerAnswers(i, ok)
    \/ \E i \in 1..MaxInFlight : ScheduleSettles(i)
    \/ \E i \in 1..MaxInFlight : GetAllClassesSettles(i)
    \/ \E classId \in {"", "ESS-2024-1"} : handleClassSelection(classId)

SpecScheduler == InitScheduler /\ [][NextScheduler]_vars

\* SpecDate follows the number inputs and the clock only, from the same
\* state.
NextDate ==
    \/ Tick
    \/ OpenScheduler
    \/ \E value \in SchedulerInputs : SetDays(value)
    \/ \E value \in SchedulerInputs : SetHours(value)
    \/ \E value \in SchedulerInputs : SetMinutes(value)

SpecDate == InitScheduler /\ [][NextDate]_vars

\* What an input counts for in the delay: nothing when it is empty.
CountedAs(x) == IF x = EmptyInput THEN 0 ELSE x[1]

\* days*24h + hours*1h + minutes*1min, in ms.
DelayMs(d, h, m) ==
    CountedAs(d) * 24 * 3600000 + CountedAs(h) * 3600000 + CountedAs(m) * 60000

\* C22: the scheduler's target time is now + days*24h + hours*1h +
\* minutes*1min with an empty input counted as 0, recomputed at every change
\* of days, hours or minutes, and it is null when the delay is not positive:
\* at all times there is a target time exactly when the delay is strictly
\* positive.
C22_TargetTime ==
    /\ [](scheduledDate # NoDate <=> DelayMs(days, hours, minutes) > 0)
    /\ [][<<days, hours, minutes>>' # <<days, hours, minutes>> =>
            scheduledDate' =
                IF DelayMs(days', hours', minutes') > 0
                THEN now + DelayMs(days', hours', minutes')
                ELSE NoDate]_vars

\* A target time computed after the clock has advanced, from a day, an
\* emptied hours field and a minute.
C22_Witness ==
    /\ days = Num(1) /\ hours = EmptyInput /\ minutes = Num(1)
    /\ now > 0
    /\ scheduledDate = now + DelayMs(days, hours, minutes)

\* days*24h + hours*1h + minutes*1min, in minutes.
DelayMinutes(d, h, m) ==
    CountedAs(d) * 24 * 60 + CountedAs(h) * 60 + CountedAs(m)

\* The form states of the scheduler.
formVars == <<showScheduler, scheduledGoal, days, hours, minutes, scheduledDate>>

\* The schedule requests in flight.
ScheduleRequests ==
    {i \in DOMAIN requests : requests[i].kind = "scheduleOneTime"}

\* C23 as the spec states it: the scheduler is inert client state, and
\* submitting the schedule form issues no request that schedules, persists
\* or delivers a self-evaluation request.
C23_SchedulerIsInert == ScheduleRequests = {}

\* C23, amended: the schedule button of the SelfEvaluation component changes
\* no state and sends nothing, whereas the schedule button of the Evaluations
\* component, pressed with a goal chosen and a target time present, leaves
\* the form states as they are and sends one scheduleOneTime request that
\* carries the selected class's id, the goal and the delay in hours; pressed
\* without a goal or a target time it sends nothing.
C23_ScheduleSendsRequest ==
    [][/\ ClickScheduleSelfEvaluation => UNCHANGED <<formVars, modal, requests>>
       /\ ClickSchedule =>
            /\ UNCHANGED formVars
            /\ IF selectedClass # NoClass /\ scheduledGoal # ""
                  /\ scheduledDate # NoDate
               THEN /\ Len(requests') = Len(requests) + 1
                    /\ SubSeq(requests', 1, Len(requests)) = requests
                    /\ LET r == requests'[Len(requests')]
                       IN  /\ r.kind = "scheduleOneTime"
                           /\ r.state = "sent"
                           /\ r.classId = selectedClass.id
                           /\ r.goal = scheduledGoal
                           /\ r.value[1] * 60 =
                                DelayMinutes(days, hours, minutes) * r.value[2]
               ELSE requests' = requests]_vars

\* A schedule request for a delay of one hour and one minute is in flight.
C23_Witness ==
    /\ ScheduleRequests # {}
    /\ \E i \in ScheduleRequests :
        /\ requests[i].state = "sent"
        /\ requests[i].value = <<61, 60>>
        /\ requests[i].goal = "Requirements"

\* C24: the schedule button of Evaluations checks the class, the goal and
\* the target time in that order, and the first check that fails opens its
\* modal and sends nothing; a request is sent only when all three pass. The
\* form is closed and its goal, days, hours, minutes and target time are
\* reset in the step in which a request's success arrives, and in no other
\* step; when a request fails the form states stay as they are and the
\* error is reported through onError.
C24_ScheduleRequest ==
    [][/\ ClickSchedule =>
            IF selectedClass = NoClass
            THEN modal' = NoClassModal /\ requests' = requests
            ELSE IF scheduledGoal = ""
            THEN modal' = NoGoalModal /\ requests' = requests
            ELSE IF scheduledDate = NoDate
            THEN modal' = NoDateModal /\ requests' = requests
            ELSE modal' = modal /\ Len(requests') = Len(requests) + 1
       /\ (Len(requests') > Len(requests)
            /\ requests'[Len(requests')].kind = "scheduleOneTime") =>
            /\ selectedClass # NoClass
            /\ scheduledGoal # ""
            /\ scheduledDate # NoDate
       /\ (showScheduler /\ ~showScheduler') =>
            \E i \in ScheduleRequests : requests[i].state = "ok"
       /\ \A i \in ScheduleRequests :
            /\ (ScheduleSettles(i) /\ requests[i].state = "ok") =>
                /\ ~showScheduler'
                /\ scheduledGoal' = ""
                /\ days' = Num(0) /\ hours' = Num(0) /\ minutes' = Num(0)
                /\ scheduledDate' = NoDate
            /\ (ScheduleSettles(i) /\ requests[i].state = "failed") =>
                /\ UNCHANGED formVars
                /\ ScheduleFailed \in reported']_vars

\* A schedule request has failed: the form is still open with its goal and
\* its target time, and the error has been reported.
C24_Witness ==
    /\ last = Did("scheduleOneTime", "failed")
    /\ ScheduleFailed \in reported
    /\ showScheduler
    /\ scheduledGoal # ""
    /\ scheduledDate # NoDate

----------------------------------------------------------------------------
(* The class list of the Evaluations component: loadClasses, the grade     *)
(* changes and the requests that reload the list (SpecLoad).               *)

NoClassSelected == "No class selected"

\* handleEvaluationChange up to its await, for the first student's grade of
\* the goal Requirements: EnrollmentService.updateEvaluation is sent.
handleEvaluationChange(grade) ==
    /\ ClassRendered
    /\ Len(requests) < MaxInFlight
    /\ IF selectedClass = NoClass
       THEN /\ reported' = reported \cup {NoClassSelected}
            /\ UNCHANGED requests
       ELSE /\ requests' = Append(requests,
                    Request("updateEvaluation", selectedClass.id,
                            "Requirements", grade))
            /\ UNCHANGED reported
    /\ UNCHANGED <<outsideVars, last, loadVars, schedulerVars, serverData>>

\* The answer to an updateEvaluation reaches the component: on success
\* handleEvaluationChange calls loadClasses(), on failure its catch calls
\* onError.
UpdateEvaluationSettles(i) ==
    /\ i \in DOMAIN requests
    /\ requests[i].kind = "updateEvaluation"
    /\ requests[i].state # "sent"
    /\ IF requests[i].state = "ok"
       THEN /\ isLoading' = TRUE
            /\ requests' = SendGetAllClasses(Without(requests, i))
            /\ UNCHANGED reported
       ELSE /\ reported' = reported \cup {UpdateFailed}
            /\ requests' = Without(requests, i)
            /\ UNCHANGED isLoading
    /\ UNCHANGED <<outsideVars, last, classesState, selectedClassId,
                   selectedClass, schedulerVars, serverData>>

\* The button "Enviar para todos" of the goal Requirements, up to its
\* await: EnrollmentService.requestSelfEvaluationAll is sent. The model
\* clicks it while nothing is in flight.
ClickRequestSelfEvaluationAll ==
    /\ ClassRendered
    /\ requests = <<>>
    /\ requests' = Append(requests,
            Request("requestSelfEvaluationAll", selectedClass.id,
                    "Requirements", ""))
    /\ UNCHANGED <<outsideVars, last, loadVars, schedulerVars, serverData,
                   reported>>

\* The answer to a requestSelfEvaluationAll reaches the component: then
\* opens the modal and calls loadClasses(), catch calls onError.
RequestSelfEvaluationAllSettles(i) ==
    /\ i \in DOMAIN requests
    /\ requests[i].kind = "requestSelfEvaluationAll"
    /\ requests[i].state # "sent"
    /\ IF requests[i].state = "ok"
       THEN /\ modal' = SuccessModal
            /\ isLoading' = TRUE
            /\ requests' = SendGetAllClasses(Without(requests, i))
            /\ UNCHANGED reported
       ELSE /\ reported' = reported \cup {RequestFailed}
            /\ requests' = Without(requests, i)
            /\ UNCHANGED <<modal, isLoading>>
    /\ UNCHANGED <<outsideVars, last, classesState, selectedClassId,
                   selectedClass, showScheduler, scheduledGoal, days, hours,
                   minutes, scheduledDate, now, serverData>>

\* A class is deleted on the server from elsewhere (the Classes tab, another
\* browser).
ClassDeletedElsewhere(classId) ==
    /\ find(serverData, classId) # NoClass
    /\ serverData' = SelectSeq(serverData, LAMBDA c : c.id # classId)
    /\ UNCHANGED <<outsideVars, last, loadVars, schedulerVars, requests,
                   reported>>

\* The component has just mounted: the mount effect has called
\* loadClasses(), the other effects have found nothing to set.
Mounted ==
    /\ CompareIdle /\ DiscIdle /\ pc = "done"
    /\ classes = <<>> /\ arrays = <<>> /\ last = NoCall
    /\ json = NoJSON /\ studentSet = <<>> /\ dataFile = <<>>
    /\ pendingSaves = 0 /\ lastSave = "none" /\ running = <<>>
    /\ cell = NoCell
    /\ classesState = <<>>
    /\ selectedClassId = ""
    /\ selectedClass = NoClass
    /\ isLoading = TRUE
    /\ showScheduler = FALSE /\ scheduledGoal = ""
    /\ days = Num(0) /\ hours = Num(0) /\ minutes = Num(0)
    /\ scheduledDate = NoDate
    /\ modal = "" /\ now = 0
    /\ requests = SendGetAllClasses(<<>>)
    /\ reported = {}

\* SpecLoad: one class with an enrolled student, whose grade the teacher
\* changes, several changes at a time.
InitLoad == Mounted /\ serverData = <<ESS("")>>

NextLoad ==
    \/ \E classId \in {"", "ESS-2024-1"} : handleClassSelection(classId)
    \/ \E grade \in UiGrades : handleEvaluationChange(grade)
    \/ \E i \in 1..MaxInFlight, ok \in BOOLEAN : ServerAnswers(i, ok)
    \/ \E i \in 1..MaxInFlight : GetAllClassesSettles(i)
    \/ \E i \in 1..MaxInFlight : UpdateEvaluationSettles(i)

SpecLoad == InitLoad /\ [][NextLoad]_vars

\* SpecSelect: two classes, which may be deleted from elsewhere, and the
\* requests that make the component reload the list, one at a time.
InitSelect == Mounted /\ serverData = <<ESS(""), LP>>

NextSelect ==
    \/ \E classId \in {"", "ESS-2024-1", "LP-2024-2"} : handleClassSelection(classId)
    \/ ClickRequestSelfEvaluationAll
    \/ closeModal
    \/ \E i \in 1..MaxInFlight, ok \in BOOLEAN : ServerAnswers(i, ok)
    \/ \E i \in 1..MaxInFlight : GetAllClassesSettles(i)
    \/ \E i \in 1..MaxInFlight : RequestSelfEvaluationAllSettles(i)
    \/ \E classId \in {"ESS-2024-1", "LP-2024-2"} : ClassDeletedElsewhere(classId)

SpecSelect == InitSelect /\ [][NextSelect]_vars

\* C25: when class-list fetches overlap, then once every request has
\* settled (none having failed) the classes state is the response to the
\* fetch issued last: the last setClasses did not come from an older fetch,
\* and the grades shown are those the server holds.
C25_NewestFetchWins ==
    (requests = <<>> /\ reported = {}) =>
        /\ last # Did("getAllClasses", "older")
        /\ classesState = serverData

\* The classes of the list with this id.
WithId(list, classId) == {i \in DOMAIN list : list[i].id = classId}

\* C26: once the effects have run, selectedClass is the element of classes
\* whose id is selectedClassId, and it is null when selectedClassId is empty
\* or no class of the list has that id; so after a reload that no longer
\* brings the selected class, selectedClass is null.
C26_SelectedClassFollows ==
    IF selectedClassId = "" \/ WithId(classesState, selectedClassId) = {}
    THEN selectedClass = NoClass
    ELSE /\ selectedClass.id = selectedClassId
         /\ \E i \in WithId(classesState, selectedClassId) :
                selectedClass = classesState[i]

\* The selected class was deleted elsewhere and the list was reloaded:
\* selectedClassId still names it, the list no longer has it.
C26_Witness ==
    /\ selectedClassId = "ESS-2024-1"
    /\ classesState = <<LP>>
    /\ last = Did("getAllClasses", "newest")
    /\ selectedClass = NoClass

\* The getAllClasses requests among these requests.
Fetches(reqs) == {i \in DOMAIN reqs : reqs[i].kind = "getAllClasses"}

\* C27: every loadClasses call sets isLoading to true, and when its request
\* settles it sets isLoading to false, on success and on failure alike; on
\* failure classes is left as it was and the error is passed to onError. So
\* whenever no getAllClasses is in flight the component is not loading.
C27_LoadingEnds ==
    /\ [](Fetches(requests) = {} => ~isLoading)
    /\ [][/\ Cardinality(Fetches(requests')) > Cardinality(Fetches(requests))
                => isLoading'
          /\ \A i \in Fetches(requests) :
                GetAllClassesSettles(i) =>
                    /\ ~isLoading'
                    /\ requests[i].state = "failed" =>
                        /\ classesState' = classesState
                        /\ LoadFailed \in reported']_vars

\* A reload has failed: the list loaded before is still there, the error
\* has been reported and the component is not loading.
C27_Witness ==
    /\ last = Did("getAllClasses", "failed")
    /\ classesState # <<>>
    /\ LoadFailed \in reported
    /\ requests = <<>>
    /\ ~isLoading

====
